---- MODULE Spec2Model ----
(***************************************************************************)
(* Security-hardened synchronization and transformation gateway.           *)
(*                                                                         *)
(* Three parts of the repository are modelled:                             *)
(*   - the secure translation gateway (translation-invoker-secure.ts)      *)
(*     with the content sanitizer and the output validator it calls;       *)
(*   - the review queue (review-queue.ts);                                 *)
(*   - the Drive changes monitor with the cursor store of the document     *)
(*     cache and the folder whitelist of the permission validator.         *)
(*                                                                         *)
(* Text is a sequence of symbols, each standing for a piece of text the    *)
(* code's regular expressions tell apart:                                  *)
(*   "w"    an ordinary word                                               *)
(*   "SYS"  the text SYSTEM: (a dangerous pattern of the sanitizer)        *)
(*   "KEY"  a live payment key sk_live_... (a secret pattern)              *)
(*   "MUST" an instructional keyword                                       *)
(*   "ZW"   a zero-width character, "NBSP" an invisible space              *)
(*   "SP"   a blank, "NL" a line break                                     *)
(*   "RED"  the marker [REDACTED]                                          *)
(*   "FENCE"  the text ```system (a dangerous pattern of the sanitizer)    *)
(*   "VFENCE" the text ``\u1FEFsystem: two grave accents, GREEK VARIA and  *)
(*            system; NFC maps GREEK VARIA to the grave accent             *)
(***************************************************************************)
EXTENDS Integers, Sequences, FiniteSets, TLC

VARIABLES
    \* ---- secure translation gateway: one call of generateSecureTranslation
    pc,                 \* position of the call
    input,              \* the call's argument
    sanitizedDocuments, \* STEP 1 result
    prompt,             \* STEP 2 result
    generatorCalls,     \* the prompts invokeAIAgent has been called with
    output,             \* << >> or <<generated output>>
    validation,         \* << >> or <<ValidationResult>>
    result,             \* << >> or <<SecureTranslationResult>>
    thrown,             \* "none" or the error the call raised
    steps,              \* the steps the call has executed, in order
    \* ---- review queue
    now,                \* Date.now()
    queue,              \* Map id -> ReviewItem, in insertion order
    queueFile,          \* data/review-queue.json
    securityLog,        \* logs/security-events.log
    queueCall,          \* outcome of the last review-queue operation
    \* ---- Drive changes monitor: one pass of getChanges at a time
    mpc,                \* position of the pass
    monitoredFolders,   \* config.google_docs.monitored_folders
    changeToken,        \* the cursor stored under 'global' ("" when none)
    folderCache,        \* DrivePermissionValidator.folderCache (folder ids)
    docCache,           \* document ids with cached content
    currentToken,       \* the token of the next changes.list call
    newPageToken,       \* the token to store after the walk
    allChanges,         \* the changes accumulated by the walk
    monitorResult,      \* << >> or <<ChangesScanResult>>
    monitorError,       \* "none" or the error the pass raised
    \* history of the pass
    tokenAtStart,       \* the cursor stored when the pass began
    delivered,          \* the pages the change feed returned
    caught,             \* << >> or <<the error changes.list raised>>
    startToken,         \* << >> or <<the token getStartPageToken returned>>
    tokenWrites,        \* the setChangeToken calls: token and whether the store took it
    crashedAt,          \* "none" or the position at which the pass died
    accessLog,          \* the calls the pass made to its collaborators, in order
    \* ---- Drive permission validator
    pvCall,             \* the last call of the validator and its answer
    \* ---- Google Docs monitor: one call of scanForChanges at a time
    spc,                \* position of the call
    maxDocuments,       \* options.maxDocuments
    folderIndex,        \* the monitored folder the loop is at
    scanDocuments,      \* the number of documents collected
    scanResult,         \* << >> or <<the number of documents returned>>
    scanError,          \* "none" or the error the call raised
    scanLog,            \* the calls the scan made to its collaborators, in order
    \* ---- review queue: flagForReview calls in flight at the same time
    flagCalls,          \* per caller: position of its call, its item, whether the save took
    \* ---- document cache service
    cacheEnabled,       \* config.enabled
    initialized,        \* DocumentCacheService.initialized
    redis,              \* TRUE when this.redis is a client, FALSE when it is null
    redisStore,         \* the keys of the Redis server: key -> [value, expiry]
    fallbackCache,      \* the in-memory Map: key -> [data, expiry]
    stats,              \* [hits, misses]
    cacheCall,          \* the last call of the cache service and its outcome
    storedCursor,       \* history: << >> or <<the token the last setChangeToken stored>>
    getsCompleted,      \* history: the get calls completed since the cache was cleared
    \* ---- content sanitizer called on its own
    sanitizerCall,      \* the content given to sanitizeContent and the results returned
    \* ---- circuit breaker 'google-docs-api'
    cbState,            \* CLOSED, OPEN or HALF_OPEN
    failureCount,       \* consecutive failures
    successCount,       \* consecutive successes while half-open
    openedAt,           \* the time the circuit was opened
    cbCall,             \* the execute call in progress or the outcome of the last one
    recent,             \* history: the outcomes of the last wrapped operations invoked
    \* ---- Google Docs monitor: one call of scanFolder
    fpc,                \* position of the call
    files,              \* the files drive.files.list returned
    fileIndex,          \* the file the loop is at
    folderDocs,         \* the documents collected, then returned
    \* ---- content sanitizer: validateSanitization
    lastIndex,          \* lastIndex of each RegExp of dangerousPatterns
    validateCall,       \* the arguments and the result of the last validateSanitization
    \* ---- two passes of getChanges in flight together
    feed,               \* the number of changes the upstream change feed has recorded
    globalCursor,       \* the cursor stored under 'global': a place in the feed
    passes              \* per pass: its position and its locals

gwVars == <<pc, input, sanitizedDocuments, prompt, generatorCalls, output,
            validation, result, thrown, steps>>
rqVars == <<now, queue, queueFile, securityLog, queueCall>>
monVars == <<mpc, monitoredFolders, changeToken, folderCache, docCache, currentToken,
             newPageToken, allChanges, monitorResult, monitorError, tokenAtStart,
             delivered, caught, startToken, tokenWrites, crashedAt, accessLog>>
pvVars == <<pvCall>>
scVars == <<spc, maxDocuments, folderIndex, scanDocuments,
           scanResult, scanError, scanLog>>
cqVars == <<flagCalls>>
dcVars == <<cacheEnabled, initialized, redis, redisStore, fallbackCache, stats, cacheCall>>
hcVars == <<storedCursor, getsCompleted>>
saVars == <<sanitizerCall>>
cbVars == <<cbState, failureCount, successCount, openedAt, cbCall, recent>>
fsVars == <<fpc, files, fileIndex, folderDocs>>
vsVars == <<lastIndex, validateCall>>
cpVars == <<feed, globalCursor, passes>>
svcVars == <<cqVars, dcVars, hcVars, saVars, cbVars, fsVars, vsVars, cpVars>>
extVars == <<pvVars, scVars, svcVars>>
vars == <<gwVars, rqVars, monVars, extVars>>

----------------------------------------------------------------------------
(* Bounds *)

MaxDocs == 1
MaxContentLen == 2
MaxTime == 2
MaxLog == 3
MaxPages == 2
MaxChanges == 2
MaxPathLen == 4
MaxDocuments == 2
MaxGets == 2
MaxSanitizeLen == 3
MaxFiles == 2
MaxValidateLen == 2
MaxBreaks == 4
MaxLineLen == 2
MaxFeed == 3

----------------------------------------------------------------------------
(* Generic helpers *)

Min(a, b) == IF a < b THEN a ELSE b

Abs(x) == IF x < 0 THEN -x ELSE x

\* Math.round of the non-negative quotient n / d
RoundDiv(n, d) == (2 * n + d) \div (2 * d)

SeqsUpTo(S, n) == UNION {[1..k -> S] : k \in 0..n}

----------------------------------------------------------------------------
(* Content sanitizer *)

Whitespace == {"SP", "NL"}

ZeroWidthChars == {"ZW"}

InvisibleChars == {"NBSP"}

DangerousPatterns == <<"SYS", "FENCE">>

InstructionalWords == {"MUST"}

Redacted == "RED"

RemoveHiddenText(content) ==
    LET noZw == SelectSeq(content, LAMBDA c : c \notin ZeroWidthChars)
        text == [i \in DOMAIN noZw |->
                    IF noZw[i] \in InvisibleChars THEN "SP" ELSE noZw[i]]
        zw == IF \E i \in DOMAIN content : content[i] \in ZeroWidthChars
              THEN <<"Zero-width character">> ELSE << >>
        inv == IF \E i \in DOMAIN noZw : noZw[i] \in InvisibleChars
               THEN <<"Invisible Unicode characters">> ELSE << >>
    IN  [text |-> text, removed |-> zw \o inv]

\* content.match(pattern): the matches of one dangerous pattern
PatternMatches(content, pattern) == SelectSeq(content, LAMBDA c : c = pattern)

\* content.replace(pattern, '[REDACTED]')
ReplacePattern(content, pattern) ==
    [i \in DOMAIN content |-> IF content[i] = pattern THEN Redacted ELSE content[i]]

RECURSIVE RemoveDangerous(_, _)
RemoveDangerous(acc, patterns) ==
    IF patterns = << >> THEN acc
    ELSE LET p == Head(patterns)
             m == PatternMatches(acc.text, p)
         IN  RemoveDangerous(
                 IF m = << >> THEN acc
                 ELSE [text |-> ReplacePattern(acc.text, p),
                       removed |-> acc.removed \o m,
                       flagged |-> TRUE],
                 Tail(patterns))

\* replace(/\s+/g, ' ')
RECURSIVE CollapseWhitespace(_)
CollapseWhitespace(s) ==
    IF s = << >> THEN << >>
    ELSE LET rest == CollapseWhitespace(Tail(s))
         IN  IF Head(s) \in Whitespace
             THEN IF rest # << >> /\ Head(rest) = "SP" THEN rest ELSE <<"SP">> \o rest
             ELSE <<Head(s)>> \o rest

\* replace(/\n{3,}/g, '\n\n')
RECURSIVE LimitLineBreaks(_)
LimitLineBreaks(s) ==
    IF Len(s) >= 3 /\ s[1] = "NL" /\ s[2] = "NL" /\ s[3] = "NL"
    THEN LimitLineBreaks(Tail(s))
    ELSE IF s = << >> THEN << >> ELSE <<Head(s)>> \o LimitLineBreaks(Tail(s))

RECURSIVE TrimLeft(_)
TrimLeft(s) == IF s # << >> /\ Head(s) \in Whitespace THEN TrimLeft(Tail(s)) ELSE s

RECURSIVE TrimRight(_)
TrimRight(s) ==
    IF s # << >> /\ s[Len(s)] \in Whitespace THEN TrimRight(SubSeq(s, 1, Len(s) - 1)) ELSE s

\* content.normalize('NFC'), symbol by symbol
Nfc(c) == IF c = "VFENCE" THEN "FENCE" ELSE c

Normalize(content) == [i \in DOMAIN content |-> Nfc(content[i])]

NormalizeContent(content) ==
    TrimRight(TrimLeft(LimitLineBreaks(CollapseWhitespace(Normalize(content)))))

\* content.split(/\s+/).length
RECURSIVE WordCount(_)
WordCount(s) ==
    IF s = << >> THEN 1
    ELSE IF Head(s) \in Whitespace
         THEN IF Len(s) >= 2 /\ s[2] \in Whitespace THEN WordCount(Tail(s))
              ELSE 1 + WordCount(Tail(s))
         ELSE WordCount(Tail(s))

HasExcessiveInstructions(content) ==
    LET instructionCount ==
            Cardinality({i \in DOMAIN content : content[i] \in InstructionalWords})
    IN  10 * instructionCount > WordCount(content)

SanitizeContent(content) ==
    LET hidden == RemoveHiddenText(content)
        step2 == RemoveDangerous([text |-> hidden.text,
                                  removed |-> hidden.removed,
                                  flagged |-> hidden.removed # << >>],
                                 DangerousPatterns)
        sanitized == NormalizeContent(step2.text)
    IN  [sanitized |-> sanitized,
         removed |-> step2.removed,
         flagged |-> step2.flagged \/ HasExcessiveInstructions(sanitized)]

\* the number of characters of a symbol's text
SymbolLength(c) ==
    CASE c = "SYS" -> 7
      [] c = "RED" -> 10
      [] c = "FENCE" -> 9
      [] c = "VFENCE" -> 9
      [] c = "MUST" -> 4
      [] OTHER -> 1

\* text.length
RECURSIVE TextLength(_)
TextLength(s) == IF s = << >> THEN 0 ELSE SymbolLength(Head(s)) + TextLength(Tail(s))

SanitizerSymbols == {"w", "SYS", "MUST", "ZW", "NBSP", "SP", "NL", "RED", "FENCE", "VFENCE"}

SanitizerInputs == SeqsUpTo(SanitizerSymbols, MaxSanitizeLen)

\* a line of text: words only
Lines == SeqsUpTo({"w", "x"}, MaxLineLen) \ {<< >>}

\* k consecutive line breaks
Breaks(k) == [i \in 1..k |-> "NL"]

\* two lines with line breaks between them
TwoLineInputs == {a \o Breaks(k) \o b : a \in Lines, b \in Lines, k \in 1..MaxBreaks}

\* sanitizeContent(content), called by a client of the sanitizer
SanitizeContentCall ==
    /\ sanitizerCall.op = "sanitizeContent"
    /\ sanitizerCall' = [op |-> "sanitized", content |-> sanitizerCall.content,
                         result |-> SanitizeContent(sanitizerCall.content)]

\* sanitizeContent called again on the text it returned
SanitizeAgainCall ==
    /\ sanitizerCall.op = "sanitized"
    /\ sanitizerCall' = [op |-> "sanitizedAgain", content |-> sanitizerCall.content,
                         result |-> sanitizerCall.result,
                         again |-> SanitizeContent(sanitizerCall.result.sanitized)]

\* lastIndex of the patterns of a new ContentSanitizer
NoLastIndex == [k \in DOMAIN DangerousPatterns |-> 0]

InitValidate ==
    /\ lastIndex = NoLastIndex
    /\ validateCall = [op |-> "none"]

\* the places where the pattern matches in the text at or after the character offset
MatchesFrom(text, pattern, offset) ==
    {i \in DOMAIN text : /\ text[i] = pattern
                         /\ TextLength(SubSeq(text, 1, i - 1)) >= offset}

\* pattern.test(text) of a RegExp with the g flag: the search starts at lastIndex, a
\* match moves lastIndex behind it, a failed search sets it to 0
Test(text, pattern, offset) ==
    LET found == MatchesFrom(text, pattern, offset)
        first == CHOOSE i \in found : \A j \in found : i <= j
    IN  IF found = {}
        THEN [matched |-> FALSE, lastIndex |-> 0]
        ELSE [matched |-> TRUE, lastIndex |-> TextLength(SubSeq(text, 1, first))]

\* the loop of validateSanitization over the patterns from the k-th on: it returns at
\* the first pattern that matches
RECURSIVE TestPatterns(_, _, _)
TestPatterns(text, indexes, k) ==
    IF k > Len(DangerousPatterns)
    THEN [matched |-> FALSE, lastIndex |-> indexes]
    ELSE LET t == Test(text, DangerousPatterns[k], indexes[k])
             next == [indexes EXCEPT ![k] = t.lastIndex]
         IN  IF t.matched
             THEN [matched |-> TRUE, lastIndex |-> next]
             ELSE TestPatterns(text, next, k + 1)

\* removalRatio > 0.5 with removalRatio = 1 - sanitized.length / original.length; for an
\* empty original the ratio is NaN or -Infinity and the comparison is false
TooMuchRemoved(original, sanitized) ==
    /\ TextLength(original) > 0
    /\ 2 * TextLength(sanitized) < TextLength(original)

\* validateSanitization(original, sanitized)
ValidateSanitization(original, sanitized) ==
    LET patterns == TestPatterns(sanitized, lastIndex, 1)
    IN  /\ lastIndex' = patterns.lastIndex
        /\ validateCall' = [op |-> "validateSanitization", original |-> original,
                            sanitized |-> sanitized,
                            result |-> ~patterns.matched
                                       /\ ~TooMuchRemoved(original, sanitized)]

\* the texts given to validateSanitization
ValidateSymbols == {"w", "SYS", "FENCE"}

ValidateTexts == SeqsUpTo(ValidateSymbols, MaxValidateLen)

\* sanitizeContent called between two validations: match and replace of a RegExp with
\* the g flag begin at 0 and leave lastIndex at 0
SanitizeBetween ==
    /\ validateCall.op # "none"
    /\ lastIndex' = NoLastIndex
    /\ validateCall' = [op |-> "sanitizeContent"]

----------------------------------------------------------------------------
(* Output validator.  A generated output is described by what the checks   *)
(* read from it: the number of secret-pattern matches, the number of       *)
(* suspicious patterns that match, its word count and its number of        *)
(* technical terms.                                                        *)

Formats == {"executive", "engineering"}

MatchCounts == 0..1

\* <<word count, technical terms>>; the first is getMockResponse()
OutputSizes == {<<113, 5>>, <<900, 0>>, <<1700, 0>>}

Outputs == {[secrets |-> a, suspicious |-> b, words |-> s[1], technical |-> s[2]] :
                a \in MatchCounts, b \in MatchCounts, s \in OutputSizes}

Issue(type, severity) == [type |-> type, severity |-> severity]

CheckForSecrets(o) == [i \in 1..o.secrets |-> Issue("SECRET_DETECTED", "CRITICAL")]

CheckForSuspiciousContent(o) ==
    [i \in 1..o.suspicious |-> Issue("SUSPICIOUS_PATTERN", "HIGH")]

GetExpectedTechnicalLevel(format) ==
    CASE format = "executive" -> 2
      [] format = "marketing" -> 3
      [] format = "product" -> 5
      [] format = "unified" -> 5
      [] format = "engineering" -> 8
      [] OTHER -> 5

CalculateTechnicalLevel(o) == Min(10, RoundDiv(o.technical * 100, o.words))

CheckTechnicalLevel(o, format) ==
    IF Abs(CalculateTechnicalLevel(o) - GetExpectedTechnicalLevel(format)) > 2
    THEN <<Issue("TECHNICAL_LEVEL_MISMATCH", "MEDIUM")>>
    ELSE << >>

GetExpectedWordCount(format) ==
    CASE format \in {"executive", "marketing"} -> [min |-> 400, max |-> 800]
      [] format \in {"product", "unified"} -> [min |-> 800, max |-> 1500]
      [] format = "engineering" -> [min |-> 1200, max |-> 2500]
      [] OTHER -> [min |-> 500, max |-> 1500]

CheckOutputLength(o, format) ==
    LET expectedRange == GetExpectedWordCount(format)
    IN  (IF o.words < expectedRange.min
         THEN <<Issue("OUTPUT_TOO_SHORT", "LOW")>> ELSE << >>)
        \o
        (IF o.words > expectedRange.max * 2
         THEN <<Issue("OUTPUT_TOO_LONG", "MEDIUM")>> ELSE << >>)

HasSeverity(issues, sev) == \E i \in DOMAIN issues : issues[i].severity = sev

\* the risk level taken from the last issue reported
DetermineRiskLevelOfLast(issues) ==
    IF issues = << >> THEN "LOW" ELSE issues[Len(issues)].severity

DetermineRiskLevel(issues) ==
    IF HasSeverity(issues, "CRITICAL") THEN "CRITICAL"
    ELSE IF HasSeverity(issues, "HIGH") THEN "HIGH"
    ELSE IF HasSeverity(issues, "MEDIUM") THEN "MEDIUM"
    ELSE "LOW"

\* mutant: only a CRITICAL risk requires manual review
ValidateOutputCriticalOnly(o, format) ==
    LET issues == CheckForSecrets(o) \o CheckForSuspiciousContent(o)
                  \o CheckTechnicalLevel(o, format) \o CheckOutputLength(o, format)
        riskLevel == DetermineRiskLevel(issues)
    IN  [valid |-> ~HasSeverity(issues, "CRITICAL") /\ ~HasSeverity(issues, "HIGH"),
         issues |-> issues,
         requiresManualReview |-> riskLevel = "CRITICAL",
         riskLevel |-> riskLevel]

ValidateOutput(o, format) ==
    LET issues == CheckForSecrets(o) \o CheckForSuspiciousContent(o)
                  \o CheckTechnicalLevel(o, format) \o CheckOutputLength(o, format)
        riskLevel == DetermineRiskLevel(issues)
    IN  [valid |-> ~HasSeverity(issues, "CRITICAL") /\ ~HasSeverity(issues, "HIGH"),
         issues |-> issues,
         requiresManualReview |-> riskLevel \in {"HIGH", "CRITICAL"},
         riskLevel |-> riskLevel]

----------------------------------------------------------------------------
(* Review queue.  The queue is the Map of the code, kept as the sequence    *)
(* of its values in insertion order; ids are unique in it.  An item's      *)
(* payload (translation) is opaque to every queue operation and is left    *)
(* out; the reason carries the risk level the gateway flagged it with.     *)

RandomSuffixes == {"a", "b"}

Reviewers == {"alice"}

Reasons == {"HIGH", "CRITICAL", "manual"}

\* `review-${Date.now()}-${Math.random().toString(36).substring(7)}`
GenerateId(t, suffix) == <<t, suffix>>

NewReviewItem(id, reason, t) ==
    [id |-> id, reason |-> reason, flaggedAt |-> t, flaggedBy |-> "system",
     reviewedBy |-> "null", reviewedAt |-> -1, approved |-> FALSE,
     status |-> "PENDING", notes |-> ""]

QueueIds(q) == {q[i].id : i \in DOMAIN q}

QueueIndex(q, id) == CHOOSE i \in DOMAIN q : q[i].id = id

\* Map.set: a new key is appended, an existing key keeps its place and takes the value
QueueSet(q, item) ==
    IF item.id \in QueueIds(q)
    THEN [q EXCEPT ![QueueIndex(q, item.id)] = item]
    ELSE Append(q, item)

\* saveQueue: the write error is caught and logged
SaveQueue(file, q, writeOk) == IF writeOk THEN q ELSE file

LogEntry(eventType, item) ==
    [eventType |-> eventType, reviewId |-> item.id, status |-> item.status]

PendingCount(q) == Cardinality({i \in DOMAIN q : q[i].status = "PENDING"})

\* flagForReview(translation, reason, securityIssues)
FlagForReview(reason, suffix, writeOk) ==
    /\ Len(securityLog) < MaxLog
    /\ LET item == NewReviewItem(GenerateId(now, suffix), reason, now)
       IN  /\ queue' = QueueSet(queue, item)
           /\ queueFile' = SaveQueue(queueFile, queue', writeOk)
           /\ securityLog' = Append(securityLog, LogEntry("FLAGGED_FOR_REVIEW", item))
           /\ queueCall' = [op |-> "flagForReview", id |-> item.id,
                            error |-> "SecurityException"]
    /\ UNCHANGED now

\* the guard of approve and reject that never refuses a processed item
AlreadyProcessedNever(item) == FALSE

\* if (item.status !== 'PENDING') throw new Error(`Review item already processed: ...`)
AlreadyProcessed(item) == item.status # "PENDING"

Review(id, reviewedBy, notes, approved, op, writeOk) ==
    /\ Len(securityLog) < MaxLog
    /\ IF id \notin QueueIds(queue)
       THEN /\ queueCall' = [op |-> op, id |-> id, error |-> "NotFound"]
            /\ UNCHANGED <<queue, queueFile, securityLog>>
       ELSE LET i == QueueIndex(queue, id)
                item == queue[i]
            IN  IF AlreadyProcessed(item)
                THEN /\ queueCall' = [op |-> op, id |-> id, error |-> "AlreadyProcessed"]
                     /\ UNCHANGED <<queue, queueFile, securityLog>>
                ELSE LET done == [item EXCEPT !.reviewedBy = reviewedBy,
                                              !.reviewedAt = now,
                                              !.approved = approved,
                                              !.status = IF approved THEN "APPROVED"
                                                         ELSE "REJECTED",
                                              !.notes = notes]
                     IN  /\ queue' = [queue EXCEPT ![i] = done]
                         /\ queueFile' = SaveQueue(queueFile, queue', writeOk)
                         /\ securityLog' = Append(securityLog,
                                LogEntry(IF approved THEN "REVIEW_APPROVED"
                                         ELSE "REVIEW_REJECTED", done))
                         /\ queueCall' = [op |-> op, id |-> id, error |-> "none"]
    /\ UNCHANGED now

Approve(id, reviewedBy, writeOk) == Review(id, reviewedBy, "", TRUE, "approve", writeOk)

Reject(id, reviewedBy, writeOk) == Review(id, reviewedBy, "no", FALSE, "reject", writeOk)

\* items.slice(0, 100): the number of items cleanupOldReviews keeps, scaled down
KeepLimit == 2

\* the place of item i after a sort by ascending flaggedAt
SortedPlaceOldestFirst(q, i) ==
    1 + Cardinality({j \in DOMAIN q : \/ q[j].flaggedAt < q[i].flaggedAt
                                      \/ q[j].flaggedAt = q[i].flaggedAt /\ j < i})

\* the place of item i after sort((a, b) => b.flaggedAt - a.flaggedAt), which is stable
SortedPlace(q, i) ==
    1 + Cardinality({j \in DOMAIN q : \/ q[j].flaggedAt > q[i].flaggedAt
                                      \/ q[j].flaggedAt = q[i].flaggedAt /\ j < i})

NewestFirst(q) == [k \in 1..Len(q) |-> q[CHOOSE i \in DOMAIN q : SortedPlace(q, i) = k]]

\* cleanupOldReviews(): the newest KeepLimit items, re-inserted newest first, then saved
CleanupOldReviews(writeOk) ==
    /\ queue' = SubSeq(NewestFirst(queue), 1, Min(KeepLimit, Len(queue)))
    /\ queueFile' = SaveQueue(queueFile, queue', writeOk)
    /\ queueCall' = [op |-> "cleanupOldReviews", id |-> queueCall.id, error |-> "none"]
    /\ UNCHANGED <<now, securityLog>>

\* the clock read by Date.now() moves on
Tick ==
    /\ now < MaxTime
    /\ now' = now + 1
    /\ UNCHANGED <<queue, queueFile, securityLog, queueCall>>

----------------------------------------------------------------------------
(* flagForReview calls in flight together.  Node runs a call without       *)
(* interruption up to its next await: saveQueue writes the file with       *)
(* writeFileSync, so the id, queue.set and the write are one step; the     *)
(* call then yields at `await this.saveQueue()` and at                     *)
(* `await this.notifyReviewers(item)`.                                     *)

Callers == {"c1", "c2"}

NoFlagCall == [pc |-> "idle", item |-> << >>, saved |-> FALSE]

\* const id = generateId(); const item = {...}; queue.set(id, item); saveQueue()
FlagBegin(c, reason, suffix, writeOk) ==
    /\ flagCalls[c].pc = "idle"
    /\ LET item == NewReviewItem(GenerateId(now, suffix), reason, now)
       IN  /\ queue' = QueueSet(queue, item)
           /\ queueFile' = SaveQueue(queueFile, queue', writeOk)
           /\ flagCalls' = [flagCalls EXCEPT ![c] =
                                [pc |-> "saved", item |-> <<item>>, saved |-> writeOk]]
    /\ UNCHANGED <<now, securityLog, queueCall>>

\* await this.notifyReviewers(item): console output only
FlagNotify(c) ==
    /\ flagCalls[c].pc = "saved"
    /\ flagCalls' = [flagCalls EXCEPT ![c].pc = "notified"]
    /\ UNCHANGED <<now, queue, queueFile, securityLog, queueCall>>

\* this.logSecurityEvent('FLAGGED_FOR_REVIEW', item); throw new SecurityException(...)
FlagRaise(c) ==
    /\ flagCalls[c].pc = "notified"
    /\ LET item == flagCalls[c].item[1]
       IN  /\ securityLog' = Append(securityLog, LogEntry("FLAGGED_FOR_REVIEW", item))
           /\ queueCall' = [op |-> "flagForReview", id |-> item.id,
                            error |-> "SecurityException"]
    /\ flagCalls' = [flagCalls EXCEPT ![c].pc = "raised"]
    /\ UNCHANGED <<now, queue, queueFile>>

----------------------------------------------------------------------------
(* Secure translation gateway: generateSecureTranslation, step by step.    *)

GatewaySymbols == {"w", "SYS", "KEY"}

Contents == SeqsUpTo(GatewaySymbols, MaxContentLen)

Documents == {[content |-> c] : c \in Contents}

Inputs == [documents : SeqsUpTo(Documents, MaxDocs), format : Formats]

NoInput == [documents |-> << >>, format |-> "executive"]

NoPrompt == [format |-> "executive", documents |-> << >>]

\* mutant: the documents pass unsanitized
SanitizeDocumentsSkip(documents) ==
    [i \in DOMAIN documents |->
        [content |-> documents[i].content,
         sanitizationResult |-> SanitizeContent(documents[i].content)]]

SanitizeDocuments(documents) ==
    [i \in DOMAIN documents |->
        LET sanitizationResult == SanitizeContent(documents[i].content)
        IN  [content |-> sanitizationResult.sanitized,
             sanitizationResult |-> sanitizationResult]]

\* the documents text injected into the hardened system prompt
PrepareSecurePrompt(documents, format) ==
    [format |-> format, documents |-> [i \in DOMAIN documents |-> documents[i].content]]

\* sanitizedDocuments.flatMap(d => d.sanitizationResult.removed)
RECURSIVE RemovedPatterns(_)
RemovedPatterns(documents) ==
    IF documents = << >> THEN << >>
    ELSE Head(documents).sanitizationResult.removed \o RemovedPatterns(Tail(documents))

GenerateSecureTranslation(in) ==
    /\ pc = "idle"
    /\ pc' = "step1"
    /\ input' = in
    /\ UNCHANGED <<sanitizedDocuments, prompt, generatorCalls, output, validation,
                   result, thrown, steps, rqVars, monVars, extVars>>

Step1Sanitize ==
    /\ pc = "step1"
    /\ sanitizedDocuments' = SanitizeDocuments(input.documents)
    /\ steps' = Append(steps, "sanitize")
    /\ pc' = "step2"
    /\ UNCHANGED <<input, prompt, generatorCalls, output, validation, result, thrown,
                   rqVars, monVars, extVars>>

Step2Prepare ==
    /\ pc = "step2"
    /\ prompt' = PrepareSecurePrompt(sanitizedDocuments, input.format)
    /\ steps' = Append(steps, "prepare")
    /\ pc' = "step3"
    /\ UNCHANGED <<input, sanitizedDocuments, generatorCalls, output, validation,
                   result, thrown, rqVars, monVars, extVars>>

\* invokeAIAgent: the generator answers, or the invocation fails
Step3Invoke ==
    /\ pc = "step3"
    /\ generatorCalls' = Append(generatorCalls, prompt)
    /\ steps' = Append(steps, "invoke")
    /\ \/ /\ \E o \in Outputs : output' = <<o>>
          /\ pc' = "step4"
          /\ UNCHANGED thrown
       \/ /\ thrown' = "GenerationFailed"
          /\ pc' = "raised"
          /\ UNCHANGED output
    /\ UNCHANGED <<input, sanitizedDocuments, prompt, validation, result, rqVars, monVars, extVars>>

Step4Validate ==
    /\ pc = "step4"
    /\ validation' = <<ValidateOutput(output[1], input.format)>>
    /\ steps' = Append(steps, "validate")
    /\ pc' = "step5"
    /\ UNCHANGED <<input, sanitizedDocuments, prompt, generatorCalls, output, result,
                   thrown, rqVars, monVars, extVars>>

Step5Review ==
    /\ pc = "step5"
    /\ IF validation[1].requiresManualReview
       THEN /\ \E suffix \in RandomSuffixes, writeOk \in BOOLEAN :
                  FlagForReview(validation[1].riskLevel, suffix, writeOk)
            /\ steps' = Append(steps, "flag")
            /\ IF queueCall'.error # "none"
               THEN thrown' = "ReviewRequired" /\ pc' = "raised"
               ELSE thrown' = thrown /\ pc' = "step6"
       ELSE /\ pc' = "step6"
            /\ UNCHANGED <<thrown, steps, rqVars>>
    /\ UNCHANGED <<input, sanitizedDocuments, prompt, generatorCalls, output,
                   validation, result, monVars, extVars>>

Step6Critical ==
    /\ pc = "step6"
    /\ IF HasSeverity(validation[1].issues, "CRITICAL")
       THEN thrown' = "CriticalIssues" /\ pc' = "raised"
       ELSE thrown' = thrown /\ pc' = "step7"
    /\ UNCHANGED <<input, sanitizedDocuments, prompt, generatorCalls, output,
                   validation, result, steps, rqVars, monVars, extVars>>

Step7Return ==
    /\ pc = "step7"
    /\ result' = <<[content |-> output[1],
                    format |-> input.format,
                    metadata |->
                       [contentSanitized |->
                            \E i \in DOMAIN sanitizedDocuments :
                                sanitizedDocuments[i].sanitizationResult.flagged,
                        removedPatterns |-> RemovedPatterns(sanitizedDocuments),
                        validationPassed |-> validation[1].valid,
                        validationIssues |-> validation[1].issues,
                        requiresManualReview |-> validation[1].requiresManualReview]]>>
    /\ steps' = Append(steps, "return")
    /\ pc' = "returned"
    /\ UNCHANGED <<input, sanitizedDocuments, prompt, generatorCalls, output,
                   validation, thrown, rqVars, monVars, extVars>>

----------------------------------------------------------------------------
(* Drive permission validator: the folder whitelist *)

\* String.prototype.toLowerCase on the words the model uses
LowerCase(w) ==
    CASE w = "Engineering" -> "engineering"
      [] w = "Eng" -> "eng"
      [] w = "Docs" -> "docs"
      [] w = "Finance" -> "finance"
      [] w = "Payroll" -> "payroll"
      [] w = "Invalid" -> "invalid"
      [] w = "Value" -> "value"
      [] w = "Unexpected" -> "unexpected"
      [] OTHER -> w

\* a text is the sequence of its words; a path or a pattern is the sequence of its
\* characters, where a folder name counts as one character and "/", "\\" and "*"
\* are themselves
ToLowerCase(s) == [i \in DOMAIN s |-> LowerCase(s[i])]

\* String.prototype.replace(/\\/g, '/')
ReplaceBackslashes(s) == [i \in DOMAIN s |-> IF s[i] = "\\" THEN "/" ELSE s[i]]

StartsWith(s, prefix) == Len(prefix) <= Len(s) /\ SubSeq(s, 1, Len(prefix)) = prefix

EndsWith(s, suffix) ==
    Len(suffix) <= Len(s) /\ SubSeq(s, Len(s) - Len(suffix) + 1, Len(s)) = suffix

\* String.prototype.includes
Includes(text, phrase) ==
    \E i \in 0..(Len(text) - Len(phrase)) : SubSeq(text, i + 1, i + Len(phrase)) = phrase

\* s.slice(0, -n)
SliceEnd(s, n) == SubSeq(s, 1, Len(s) - n)

\* s.slice(n)
SliceFrom(s, n) == SubSeq(s, n + 1, Len(s))

MatchesPatternAnyDepth(actualPath, expectedPattern) ==
    LET normalized == ReplaceBackslashes(ToLowerCase(actualPath))
        pattern == ReplaceBackslashes(ToLowerCase(expectedPattern))
    IN  \/ normalized = pattern
        \/ /\ EndsWith(pattern, <<"/", "*">>)
           /\ StartsWith(normalized, SliceEnd(pattern, 1))
        \/ /\ EndsWith(pattern, <<"/", "*", "*">>)
           /\ \/ StartsWith(normalized, SliceEnd(pattern, 2))
              \/ normalized = SliceEnd(pattern, 3)

MatchesPattern(actualPath, expectedPattern) ==
    LET normalized == ReplaceBackslashes(ToLowerCase(actualPath))
        pattern == ReplaceBackslashes(ToLowerCase(expectedPattern))
    IN  IF normalized = pattern THEN TRUE
        ELSE IF EndsWith(pattern, <<"/", "*">>)
                  /\ StartsWith(normalized, SliceEnd(pattern, 2) \o <<"/">>)
             THEN LET prefix == SliceEnd(pattern, 2)
                      remaining == SliceFrom(normalized, Len(prefix) + 1)
                  IN  ~Includes(remaining, <<"/">>)
        ELSE IF EndsWith(pattern, <<"/", "*", "*">>)
             THEN LET prefix == SliceEnd(pattern, 3)
                  IN  StartsWith(normalized, prefix \o <<"/">>) \/ normalized = prefix
        ELSE FALSE

FolderIds == {"engDocs", "payroll", "stranger"}

\* FolderInfo.path of a folder
FolderPath(folderId) ==
    CASE folderId = "engDocs" -> <<"Engineering", "/", "Docs">>
      [] folderId = "payroll" -> <<"Finance", "/", "Payroll">>
      [] OTHER -> <<"Private">>

\* the values of config.google_docs.monitored_folders
MonitoredFolderConfigs == {<< >>, << <<"engineering", "/", "*">> >>}

IsFolderWhitelisted(expectedFolders, folderPath) ==
    \E i \in DOMAIN expectedFolders : MatchesPattern(folderPath, expectedFolders[i])

IsFolderIdWhitelistedResolving(cache, expectedFolders, folderId) ==
    IsFolderWhitelisted(expectedFolders, FolderPath(folderId))

IsFolderIdWhitelisted(cache, expectedFolders, folderId) ==
    IF folderId \in cache
    THEN IsFolderWhitelisted(expectedFolders, FolderPath(folderId))
    ELSE FALSE

\* the folder listings the Drive API can answer to getAllAccessibleFolders
Listings == {{}, {"engDocs"}, {"engDocs", "payroll"}}

\* validatePermissions: valid, and the folders it cached on the way
ValidatePermissions(cache, expectedFolders, listing, listOk) ==
    IF expectedFolders = << >> THEN [valid |-> TRUE, cache |-> cache]
    ELSE IF ~listOk THEN [valid |-> FALSE, cache |-> cache]
    ELSE [valid |-> \A f \in listing : IsFolderWhitelisted(expectedFolders, FolderPath(f)),
          cache |-> cache \cup listing]

\* pageSize of the one drive.files.list call of getAllAccessibleFolders, scaled
FolderPageSize == 2

\* the first page of the folder listing when these folders are visible
FirstPages(visible) ==
    IF Cardinality(visible) <= FolderPageSize THEN {visible}
    ELSE {page \in SUBSET visible : Cardinality(page) = FolderPageSize}

\* whitelists a deployment may configure
WhitelistConfigs ==
    { << >>,
      << <<"engineering", "/", "*">> >>,
      << <<"Engineering", "/", "*", "*">> >>,
      << <<"engineering", "/", "*">>, <<"finance", "/", "payroll">> >> }

PathAlphabet == {"Eng", "x", "/", "\\"}

PathTexts == SeqsUpTo(PathAlphabet, MaxPathLen)

PatternTexts ==
    { prefix \o suffix :
          prefix \in {<< >>, <<"eng">>, <<"Eng">>, <<"eng", "/", "x">>, <<"Eng", "\\", "x">>},
          suffix \in {<< >>, <<"/", "*">>, <<"/", "*", "*">>, <<"\\", "*">>, <<"*">>} }

\* the configuration is reloaded with another whitelist
LoadConfig ==
    /\ \E config \in WhitelistConfigs : monitoredFolders' = config
    /\ pvCall' = [op |-> "loadConfig"]
    /\ UNCHANGED folderCache

\* validatePermissions when the credential sees the folders of visible
ValidatePermissionsCall ==
    /\ \E visible \in SUBSET FolderIds, listOk \in BOOLEAN :
          \E listing \in FirstPages(visible) :
              LET permissions == ValidatePermissions(folderCache, monitoredFolders,
                                                     listing, listOk)
              IN  /\ folderCache' = permissions.cache
                  /\ pvCall' = [op |-> "validatePermissions", visible |-> visible,
                                listing |-> listing, listOk |-> listOk,
                                valid |-> permissions.valid]
    /\ UNCHANGED monitoredFolders

\* isFolderIdWhitelisted: synchronous, the Drive API is not called
IsFolderIdWhitelistedCall ==
    /\ \E folderId \in FolderIds :
          pvCall' = [op |-> "isFolderIdWhitelisted", folderId |-> folderId,
                     resolved |-> FALSE,
                     answer |-> IsFolderIdWhitelisted(folderCache, monitoredFolders,
                                                      folderId)]
    /\ UNCHANGED <<monitoredFolders, folderCache>>

\* matchesPattern applied to the arguments of the call
MatchesPatternCall ==
    /\ pvCall.op = "matchesPattern"
    /\ pvCall' = [op |-> "matched", path |-> pvCall.path, pattern |-> pvCall.pattern,
                  answer |-> MatchesPattern(pvCall.path, pvCall.pattern)]
    /\ UNCHANGED <<monitoredFolders, folderCache>>

ClearCache ==
    /\ folderCache' = {}
    /\ pvCall' = [op |-> "clearCache"]
    /\ UNCHANGED monitoredFolders

RefusesNever(permissions) == FALSE

\* if (!validation.valid) throw new SecurityException(...)
RefusesAccess(permissions) == ~permissions.valid

----------------------------------------------------------------------------
(* Document cache: the stored change token and the cached documents *)

\* getChangeToken: the stored token, null ("") on a storage error
GetChangeToken(stored, readOk) == IF readOk THEN stored ELSE ""

\* setChangeToken: a storage error is logged and the store keeps what it had
SetChangeToken(stored, token, writeOk) == IF writeOk THEN token ELSE stored

\* invalidate: a storage error is logged and the entry stays
Invalidate(cached, documentId, delOk) == IF delOk THEN cached \ {documentId} ELSE cached

CachedDocumentIds == {"ok"}

----------------------------------------------------------------------------
(* Document cache service.  The clock `now` counts seconds, Date.now() is  *)
(* in milliseconds.  A Redis key holds [value, expiry], expiry in seconds  *)
(* of the server clock or NoExpiry; an entry of the in-memory Map holds    *)
(* [data, expiry], expiry in milliseconds or Infinity.  Maps are functions *)
(* on their key sets.  Every operation takes the outcome of the Redis      *)
(* command it issues (storageOk) and of the ping of initialize (pingOk).   *)
(* History kept with an entry: `at`, the second it was stored, and `ttl`,  *)
(* the seconds it was stored for (NoExpiry, and `at` 0, for a change       *)
(* token, which has no TTL).                                               *)

DocumentIds == {"d1", "d2"}

\* CachedDocument: id and content (name, mimeType, modifiedTime, cachedAt are carried along)
CachedDocuments == [id : DocumentIds, content : {"v1"}]

\* DEFAULT_CONFIG.contentTTLSeconds: 900, scaled down
ContentTTLSeconds == 2

\* the ttlSeconds argument of set: undefined or a number of seconds
TtlArguments == {<< >>, <<0>>}

NoExpiry == -1

Infinity == 1000000

MsPerSecond == 1000

DateNow == now * MsPerSecond

\* `${keyPrefix}doc:${documentId}`
GetKey(documentId) == <<"doc", documentId>>

\* `${keyPrefix}changes:${folderId}`
ChangesKey(folderId) == <<"changes", folderId>>

\* JSON.stringify(document) and JSON.parse(cached)
Stringify(document) == <<"{", document.id, document.content, "}">>

Parse(text) == [id |-> text[2], content |-> text[3]]

MapSet(map, key, entry) ==
    [k \in DOMAIN map \cup {key} |-> IF k = key THEN entry ELSE map[k]]

MapDelete(map, keys) == [k \in DOMAIN map \ keys |-> map[k]]

\* a key the Redis server still serves
RedisLive(store, key) ==
    /\ key \in DOMAIN store
    /\ store[key].expiry = NoExpiry \/ now < store[key].expiry

\* the expired keys of the server
RedisExpired(store) == {k \in DOMAIN store : ~RedisLive(store, k)}

\* GET: nil for a missing or expired key
RedisGet(store, key) == IF RedisLive(store, key) THEN <<store[key].value>> ELSE << >>

\* an expired key is dropped when it is accessed
RedisTouch(store, key) ==
    IF key \in RedisExpired(store) THEN MapDelete(store, {key}) ELSE store

\* the methods whose storage commands sit in a try block only for reads
CatchesStorageErrorOnReads(method) == method \in {"get", "getChangeToken"}

\* the methods whose storage commands sit in a try block with a catch that logs
CatchesStorageError(method) ==
    method \in {"get", "set", "invalidate", "invalidateMany",
                "setChangeToken", "getChangeToken", "clear"}

\* the outcomes of the ping that matter: initialize pings only when not yet initialized
PingOutcomes == IF initialized THEN {TRUE} ELSE BOOLEAN

\* ensureInitialized / initialize: the client the call goes on with
Client(pingOk) == IF initialized THEN redis ELSE cacheEnabled /\ pingOk

EnsureInitialized(pingOk) ==
    /\ initialized' = TRUE
    /\ redis' = Client(pingOk)
    /\ UNCHANGED cacheEnabled

\* the outcomes of the Redis command that matter: there is none without a client
StorageOutcomes(pingOk) == IF Client(pingOk) THEN BOOLEAN ELSE {TRUE}

\* the call ends in the catch block, or raises when there is none; `id` is the list of
\* document ids or the folder id the call was made with
StorageError(method, ids) ==
    [op |-> method, id |-> ids, failed |-> TRUE,
     raised |-> ~CatchesStorageError(method), result |-> << >>]

Done(method, ids, answer) ==
    [op |-> method, id |-> ids, failed |-> FALSE, raised |-> FALSE, result |-> answer]

\* the outcome of get, with the entry it found under the key (<< >> when none)
GetDone(documentId, entry, answer) ==
    [op |-> "get", id |-> <<documentId>>, failed |-> FALSE, raised |-> FALSE,
     result |-> answer, found |-> entry]

Lookup(map, key) == IF key \in DOMAIN map THEN <<map[key]>> ELSE << >>

\* an entry that is served whatever its expiry
IsFreshAlways(entry) == TRUE

\* entry.expiry > Date.now()
IsFresh(entry) == entry.expiry > DateNow

HitCounted == [stats EXCEPT !.hits = @ + 1]

\* a miss that leaves the counters as they are
MissNotCounted == stats

MissCounted == [stats EXCEPT !.misses = @ + 1]

\* get(documentId)
CacheGet(documentId, pingOk, storageOk) ==
    /\ stats.hits + stats.misses < MaxGets
    /\ EnsureInitialized(pingOk)
    /\ LET key == GetKey(documentId)
       IN  IF Client(pingOk)
           THEN IF ~storageOk
                THEN /\ cacheCall' = StorageError("get", <<documentId>>)
                     /\ stats' = IF CatchesStorageError("get") THEN MissCounted ELSE stats
                     /\ UNCHANGED <<redisStore, fallbackCache>>
                ELSE LET cached == RedisGet(redisStore, key)
                     IN  /\ redisStore' = RedisTouch(redisStore, key)
                         /\ UNCHANGED fallbackCache
                         /\ IF cached # << >>
                            THEN /\ stats' = HitCounted
                                 /\ cacheCall' = GetDone(documentId, Lookup(redisStore, key),
                                                         <<Parse(cached[1])>>)
                            ELSE /\ stats' = MissCounted
                                 /\ cacheCall' = GetDone(documentId, Lookup(redisStore, key),
                                                         << >>)
           ELSE /\ UNCHANGED redisStore
                /\ IF key \in DOMAIN fallbackCache /\ IsFresh(fallbackCache[key])
                   THEN /\ stats' = HitCounted
                        /\ cacheCall' = GetDone(documentId, Lookup(fallbackCache, key),
                                                <<fallbackCache[key].data>>)
                        /\ UNCHANGED fallbackCache
                   ELSE /\ fallbackCache' = MapDelete(fallbackCache, {key})
                        /\ stats' = MissCounted
                        /\ cacheCall' = GetDone(documentId, Lookup(fallbackCache, key), << >>)

\* ttlSeconds ?? this.config.contentTTLSeconds
Ttl(ttlSeconds) == IF ttlSeconds = << >> THEN ContentTTLSeconds ELSE ttlSeconds[1]

\* set(document, ttlSeconds): SETEX refuses a ttl that is not positive
CacheSet(document, ttlSeconds, pingOk, storageOk) ==
    /\ EnsureInitialized(pingOk)
    /\ LET key == GetKey(document.id)
           ttl == Ttl(ttlSeconds)
       IN  IF Client(pingOk)
           THEN IF ~storageOk \/ ttl <= 0
                THEN /\ cacheCall' = StorageError("set", <<document.id>>)
                     /\ UNCHANGED <<redisStore, fallbackCache>>
                ELSE /\ redisStore' = MapSet(redisStore, key,
                                         [value |-> Stringify(document), expiry |-> now + ttl,
                                          at |-> now, ttl |-> ttl])
                     /\ cacheCall' = Done("set", <<document.id>>, << >>)
                     /\ UNCHANGED fallbackCache
           ELSE /\ fallbackCache' = MapSet(fallbackCache, key,
                                      [data |-> document, expiry |-> DateNow + ttl * MsPerSecond,
                                       at |-> now, ttl |-> ttl])
                /\ cacheCall' = Done("set", <<document.id>>, << >>)
                /\ UNCHANGED redisStore
    /\ UNCHANGED stats

\* invalidateMany(documentIds), and invalidate(documentId) as the case of one id
InvalidateKeys(method, documentIds, pingOk, storageOk) ==
    /\ EnsureInitialized(pingOk)
    /\ LET keys == {GetKey(documentIds[i]) : i \in DOMAIN documentIds}
       IN  IF documentIds = << >>
           THEN /\ cacheCall' = Done(method, documentIds, << >>)
                /\ UNCHANGED <<redisStore, fallbackCache>>
           ELSE IF Client(pingOk)
                THEN IF ~storageOk
                     THEN /\ cacheCall' = StorageError(method, documentIds)
                          /\ UNCHANGED <<redisStore, fallbackCache>>
                     ELSE /\ redisStore' = MapDelete(redisStore, keys)
                          /\ cacheCall' = Done(method, documentIds, << >>)
                          /\ UNCHANGED fallbackCache
                ELSE /\ fallbackCache' = MapDelete(fallbackCache, keys)
                     /\ cacheCall' = Done(method, documentIds, << >>)
                     /\ UNCHANGED redisStore
    /\ UNCHANGED stats

CacheInvalidate(documentId, pingOk, storageOk) ==
    InvalidateKeys("invalidate", <<documentId>>, pingOk, storageOk)

DocumentIdLists == {<< >>, <<"d1">>, <<"d1", "d2">>}

CacheInvalidateMany(documentIds, pingOk, storageOk) ==
    InvalidateKeys("invalidateMany", documentIds, pingOk, storageOk)

\* setChangeToken(folderId, token)
CacheSetChangeToken(folderId, token, pingOk, storageOk) ==
    /\ EnsureInitialized(pingOk)
    /\ LET key == ChangesKey(folderId)
       IN  IF Client(pingOk)
           THEN IF ~storageOk
                THEN /\ cacheCall' = StorageError("setChangeToken", <<folderId>>)
                     /\ UNCHANGED <<redisStore, fallbackCache>>
                ELSE /\ redisStore' = MapSet(redisStore, key,
                                             [value |-> token, expiry |-> NoExpiry,
                                              at |-> 0, ttl |-> NoExpiry])
                     /\ cacheCall' = Done("setChangeToken", <<folderId>>, << >>)
                     /\ UNCHANGED fallbackCache
           ELSE /\ fallbackCache' = MapSet(fallbackCache, key,
                        [data |-> [id |-> folderId, content |-> token], expiry |-> Infinity,
                         at |-> 0, ttl |-> NoExpiry])
                /\ cacheCall' = Done("setChangeToken", <<folderId>>, << >>)
                /\ UNCHANGED redisStore
    /\ UNCHANGED stats

\* getChangeToken(folderId)
CacheGetChangeToken(folderId, pingOk, storageOk) ==
    /\ EnsureInitialized(pingOk)
    /\ LET key == ChangesKey(folderId)
       IN  IF Client(pingOk)
           THEN IF ~storageOk
                THEN /\ cacheCall' = StorageError("getChangeToken", <<folderId>>)
                     /\ UNCHANGED redisStore
                ELSE /\ cacheCall' = Done("getChangeToken", <<folderId>>, RedisGet(redisStore, key))
                     /\ redisStore' = RedisTouch(redisStore, key)
           ELSE /\ cacheCall' = Done("getChangeToken", <<folderId>>,
                                     IF key \in DOMAIN fallbackCache
                                     THEN <<fallbackCache[key].data.content>>
                                     ELSE << >>)
                /\ UNCHANGED redisStore
    /\ UNCHANGED <<fallbackCache, stats>>

\* clear(): KEYS `${keyPrefix}*` names every live key of the service, the documents and
\* the change tokens alike; the counters restart once the keys are deleted
CacheClear(pingOk, storageOk) ==
    /\ EnsureInitialized(pingOk)
    /\ IF Client(pingOk)
       THEN IF ~storageOk
            THEN /\ cacheCall' = StorageError("clear", << >>)
                 /\ UNCHANGED <<redisStore, fallbackCache, stats>>
            ELSE /\ redisStore' = MapDelete(redisStore,
                                            {k \in DOMAIN redisStore : RedisLive(redisStore, k)})
                 /\ stats' = [hits |-> 0, misses |-> 0]
                 /\ cacheCall' = Done("clear", << >>, << >>)
                 /\ UNCHANGED fallbackCache
       ELSE /\ fallbackCache' = << >>
            /\ stats' = [hits |-> 0, misses |-> 0]
            /\ cacheCall' = Done("clear", << >>, << >>)
            /\ UNCHANGED redisStore

\* the process is restarted: a new DocumentCacheService is constructed, not yet
\* initialized and with an empty in-memory Map; the Redis server keeps its keys
Restart ==
    /\ initialized
    /\ initialized' = FALSE
    /\ redis' = FALSE
    /\ fallbackCache' = << >>
    /\ stats' = [hits |-> 0, misses |-> 0]
    /\ cacheCall' = [op |-> "none"]
    /\ UNCHANGED <<cacheEnabled, redisStore>>

\* the Redis server drops expired keys on its own
RedisExpire ==
    /\ RedisExpired(redisStore) # {}
    /\ redisStore' = MapDelete(redisStore, RedisExpired(redisStore))
    /\ UNCHANGED <<cacheEnabled, initialized, redis, fallbackCache, stats, cacheCall>>

----------------------------------------------------------------------------
(* Circuit breaker of the Google Docs storage service.  The breaker is     *)
(* configured in google-docs-storage.ts; its module ./circuit-breaker is   *)
(* not among the sources, so execute is modelled from the specification    *)
(* of the CircuitBreaker: a call is admitted or rejected, and an admitted  *)
(* call settles with the outcome of the wrapped operation.                 *)

\* failureThreshold: 5
FailureThreshold == 5

\* successThreshold: 2
SuccessThreshold == 2

\* resetTimeoutMs: 60000, in ticks of the clock
ResetTimeout == 1

\* the number of outcomes the history keeps
RecentLen == 5

InitBreaker ==
    /\ cbState = "CLOSED"
    /\ failureCount = 0
    /\ successCount = 0
    /\ openedAt = 0
    /\ cbCall = [pc |-> "idle", error |-> "none"]
    /\ recent = << >>

\* a reset timer that has always expired
TimerElapsedAlways(opened, t) == TRUE

\* the reset timeout has elapsed since the circuit was opened
TimerElapsed(opened, t) == t - opened >= ResetTimeout

\* a failure that keeps the count of failures
FailuresAfterReopenKept(count) == count

\* the failure counter after a failed probe reopens the circuit
FailuresAfterReopen(count) == 0

\* execute(operation), admission: an open circuit rejects the call until the reset
\* timeout has elapsed, and then lets it through half-open
Execute ==
    /\ cbCall.pc # "running"
    /\ IF cbState = "OPEN" /\ ~TimerElapsed(openedAt, now)
       THEN /\ cbCall' = [pc |-> "rejected", error |-> "CircuitOpen"]
            /\ UNCHANGED <<cbState, successCount>>
       ELSE /\ cbCall' = [pc |-> "running", error |-> "none"]
            /\ cbState' = IF cbState = "OPEN" THEN "HALF_OPEN" ELSE cbState
            /\ successCount' = IF cbState = "OPEN" THEN 0 ELSE successCount
    /\ UNCHANGED <<failureCount, openedAt, recent>>

\* the last RecentLen outcomes
Remember(outcomes, outcome) ==
    LET all == Append(outcomes, outcome)
    IN  SubSeq(all, Len(all) - Min(Len(all), RecentLen) + 1, Len(all))

\* the wrapped operation succeeded
Succeed ==
    /\ cbCall.pc = "running"
    /\ cbCall' = [pc |-> "returned", error |-> "none"]
    /\ recent' = Remember(recent, "success")
    /\ failureCount' = 0
    /\ IF cbState = "HALF_OPEN"
       THEN IF successCount + 1 >= SuccessThreshold
            THEN cbState' = "CLOSED" /\ successCount' = 0
            ELSE successCount' = successCount + 1 /\ UNCHANGED cbState
       ELSE UNCHANGED <<cbState, successCount>>
    /\ UNCHANGED openedAt

\* the wrapped operation failed: its error is passed on
Fail ==
    /\ cbCall.pc = "running"
    /\ cbCall' = [pc |-> "raised", error |-> "OperationFailed"]
    /\ recent' = Remember(recent, "failure")
    /\ IF cbState = "HALF_OPEN"
       THEN /\ cbState' = "OPEN"
            /\ failureCount' = FailuresAfterReopen(failureCount)
            /\ openedAt' = now
       ELSE IF failureCount + 1 >= FailureThreshold
            THEN /\ cbState' = "OPEN"
                 /\ failureCount' = failureCount + 1
                 /\ openedAt' = now
            ELSE /\ failureCount' = failureCount + 1
                 /\ UNCHANGED <<cbState, openedAt>>
    /\ successCount' = 0

----------------------------------------------------------------------------
(* Drive changes monitor *)

\* the start tokens and the next-page tokens the Drive API hands out
Tokens == {"t1", "t2"}
PageTokens == {"p1"}

GoogleDoc == "application/vnd.google-apps.document"
MonitoredTypes == {GoogleDoc, "text/markdown", "text/plain"}

DriveFile(id, mimeType, parents, trashed) ==
    [id |-> id, name |-> id, mimeType |-> mimeType, parents |-> parents, trashed |-> trashed]

\* the entries of the change feed: file is << >> when the entry carries no file
ChangeEntries ==
    { [fileId |-> "ok", removed |-> FALSE,
       file |-> <<DriveFile("ok", GoogleDoc, <<"engDocs">>, FALSE)>>],
      [fileId |-> "salaries", removed |-> FALSE,
       file |-> <<DriveFile("salaries", GoogleDoc, <<"payroll">>, FALSE)>>],
      [fileId |-> "diary", removed |-> FALSE,
       file |-> <<DriveFile("diary", "text/plain", <<"stranger">>, FALSE)>>],
      [fileId |-> "orphan", removed |-> FALSE,
       file |-> <<DriveFile("orphan", GoogleDoc, << >>, FALSE)>>],
      [fileId |-> "slides", removed |-> FALSE,
       file |-> <<DriveFile("slides", "application/pdf", <<"engDocs">>, FALSE)>>],
      [fileId |-> "binned", removed |-> FALSE,
       file |-> <<DriveFile("binned", GoogleDoc, <<"engDocs">>, TRUE)>>],
      [fileId |-> "gone", removed |-> TRUE, file |-> << >>],
      [fileId |-> "", removed |-> FALSE, file |-> << >>] }

\* the errors drive.changes.list can raise: what went wrong, and the message
ListErrors ==
    { [kind |-> "invalidPageToken", message |-> <<"Invalid", "Value">>],
      [kind |-> "transient", message |-> <<"socket", "hang", "up">>],
      [kind |-> "transient", message |-> <<"Unexpected", "token">>] }

IsInvalidTokenErrorNever(error) == FALSE

IsInvalidTokenError(error) ==
    LET message == ToLowerCase(error.message)
    IN  \/ Includes(message, <<"invalid">>)
        \/ Includes(message, <<"token">>)
        \/ Includes(message, <<"page", "token">>)

\* response.data.startPageToken || ''
GetStartPageToken(response) == IF response = << >> THEN "" ELSE response[1]

IsMonitoredFileType(mimeType) == mimeType \in MonitoredTypes

IsInMonitoredFolder(file, cache, folders) ==
    IF file.parents = << >> THEN FALSE
    ELSE IF \E i \in DOMAIN file.parents :
                IsFolderIdWhitelisted(cache, folders, file.parents[i])
         THEN TRUE
    ELSE TRUE

IsFirstRunNever(pageToken) == FALSE

\* const isFirstRun = !pageToken
IsFirstRun(pageToken) == pageToken = ""

\* the body of the loop over the changes of a page: is the change kept
KeepsChange(change, cache, folders) ==
    /\ ~(change.file = << >> /\ ~change.removed)
    /\ change.file # << >> => IsMonitoredFileType(change.file[1].mimeType)
    /\ change.file # << >> => IsInMonitoredFolder(change.file[1], cache, folders)

ChangedDocument(change) ==
    LET hasFile == change.file # << >>
    IN  [id |-> IF change.fileId # "" THEN change.fileId
                ELSE IF hasFile THEN change.file[1].id ELSE "",
         name |-> IF hasFile THEN change.file[1].name ELSE "Unknown",
         changeType |-> IF change.removed \/ (hasFile /\ change.file[1].trashed)
                        THEN "deleted" ELSE "modified",
         mimeType |-> IF hasFile THEN change.file[1].mimeType ELSE ""]

\* the changes of a page that the loop does not skip, in page order
RECURSIVE KeptChanges(_, _, _)
KeptChanges(changes, cache, folders) ==
    IF changes = << >> THEN << >>
    ELSE (IF KeepsChange(Head(changes), cache, folders) THEN <<Head(changes)>> ELSE << >>)
         \o KeptChanges(Tail(changes), cache, folders)

ProcessChanges(changes, cache, folders) ==
    LET kept == KeptChanges(changes, cache, folders)
    IN  [i \in DOMAIN kept |-> ChangedDocument(kept[i])]

\* if (change.fileId) await documentCache.invalidate(change.fileId), for each kept change
RECURSIVE InvalidateChanged(_, _, _)
InvalidateChanged(cached, kept, delOk) ==
    IF kept = << >> THEN cached
    ELSE InvalidateChanged(IF Head(kept).fileId # ""
                           THEN Invalidate(cached, Head(kept).fileId, delOk)
                           ELSE cached,
                           Tail(kept), delOk)

RECURSIVE CountChanges(_)
CountChanges(pages) ==
    IF pages = << >> THEN 0 ELSE Len(Head(pages).changes) + CountChanges(Tail(pages))

\* the answers of drive.changes.list: a page that names the next page, or the last
\* page, which may name the token to start from next time
ListResponses(room, more) ==
    { [changes |-> c, nextPageToken |-> n[1], newStartPageToken |-> n[2]] :
          c \in SeqsUpTo(ChangeEntries, room),
          n \in (IF more THEN {<<t, "">> : t \in PageTokens} ELSE {})
                    \cup {<<"", t>> : t \in Tokens \cup {""}} }

NoResult == << >>

ScanResult(changes, token, isFirstRun) ==
    <<[changes |-> changes, newPageToken |-> token, isFirstRun |-> isFirstRun,
       totalChanges |-> Len(changes)]>>

\* a call of getChanges begins; the previous call has ended
GetChanges ==
    /\ mpc \in {"idle", "returned", "raised", "crashed"}
    /\ mpc' = "validate"
    /\ tokenAtStart' = changeToken
    /\ currentToken' = ""
    /\ newPageToken' = ""
    /\ allChanges' = << >>
    /\ monitorResult' = NoResult
    /\ monitorError' = "none"
    /\ delivered' = << >>
    /\ caught' = << >>
    /\ startToken' = << >>
    /\ tokenWrites' = << >>
    /\ crashedAt' = "none"
    /\ accessLog' = << >>
    /\ UNCHANGED <<monitoredFolders, changeToken, folderCache, docCache>>

\* lines 86-105: validatePermissions, then the empty configuration
ValidateAccess ==
    /\ mpc = "validate"
    /\ \E listing \in Listings, listOk \in BOOLEAN :
          LET permissions == ValidatePermissions(folderCache, monitoredFolders, listing, listOk)
          IN  /\ folderCache' = permissions.cache
              /\ accessLog' = Append(accessLog, IF permissions.valid
                                                THEN "validatePermissions"
                                                ELSE "validatePermissions:invalid")
              /\ IF RefusesAccess(permissions)
                 THEN /\ mpc' = "raised"
                      /\ monitorError' = "SecurityException"
                      /\ UNCHANGED monitorResult
                 ELSE IF monitoredFolders = << >>
                 THEN /\ mpc' = "returned"
                      /\ monitorResult' = ScanResult(<< >>, "", TRUE)
                      /\ UNCHANGED monitorError
                 ELSE /\ mpc' = "readToken"
                      /\ UNCHANGED <<monitorResult, monitorError>>
    /\ UNCHANGED <<monitoredFolders, changeToken, docCache, currentToken, newPageToken,
                   allChanges, tokenAtStart, delivered, caught, startToken, tokenWrites,
                   crashedAt>>

\* lines 107-112 and 130-134: read the stored token, pick the first-run path or the walk
ReadToken ==
    /\ mpc = "readToken"
    /\ accessLog' = Append(accessLog, "getChangeToken")
    /\ \E readOk \in BOOLEAN :
          LET pageToken == GetChangeToken(changeToken, readOk)
          IN  IF IsFirstRun(pageToken)
              THEN /\ mpc' = "fetchStart"
                   /\ UNCHANGED <<currentToken, newPageToken>>
              ELSE /\ currentToken' = pageToken
                   /\ newPageToken' = pageToken
                   /\ mpc' = IF pageToken # "" THEN "walk" ELSE "store"
    /\ UNCHANGED <<monitoredFolders, changeToken, folderCache, docCache, allChanges,
                   monitorResult, monitorError, tokenAtStart, delivered, caught,
                   startToken, tokenWrites, crashedAt>>

\* getStartPageToken, on the first run (line 114) and after an invalid token (line 214)
FetchStartToken ==
    /\ mpc = "fetchStart"
    /\ accessLog' = Append(accessLog, "getStartPageToken")
    /\ \E response \in {<< >>} \cup {<<t>> : t \in Tokens} :
          startToken' = <<GetStartPageToken(response)>>
    /\ mpc' = "storeStart"
    /\ UNCHANGED <<monitoredFolders, changeToken, folderCache, docCache, currentToken,
                   newPageToken, allChanges, monitorResult, monitorError, tokenAtStart,
                   delivered, caught, tokenWrites, crashedAt>>

\* setChangeToken with the start token (lines 115 and 215)
StoreStartToken ==
    /\ mpc = "storeStart"
    /\ accessLog' = Append(accessLog, "setChangeToken")
    /\ \E writeOk \in BOOLEAN :
          /\ changeToken' = SetChangeToken(changeToken, startToken[1], writeOk)
          /\ tokenWrites' = Append(tokenWrites, [token |-> startToken[1], ok |-> writeOk])
    /\ mpc' = "returnFirstRun"
    /\ UNCHANGED <<monitoredFolders, folderCache, docCache, currentToken, newPageToken,
                   allChanges, monitorResult, monitorError, tokenAtStart, delivered,
                   caught, startToken, crashedAt>>

\* the returns of lines 119-124 and 217-222
ReturnFirstRun ==
    /\ mpc = "returnFirstRun"
    /\ monitorResult' = ScanResult(<< >>, startToken[1], TRUE)
    /\ mpc' = "returned"
    /\ UNCHANGED <<monitoredFolders, changeToken, folderCache, docCache, currentToken,
                   newPageToken, allChanges, monitorError, tokenAtStart, delivered,
                   caught, startToken, tokenWrites, crashedAt, accessLog>>

\* one turn of the loop of lines 135-193: drive.changes.list answers a page
ListChanges ==
    /\ mpc = "walk"
    /\ accessLog' = Append(accessLog, "changes.list")
    /\ Len(delivered) < MaxPages
    /\ \E response \in ListResponses(MaxChanges - CountChanges(delivered),
                                     Len(delivered) + 1 < MaxPages),
          delOk \in BOOLEAN :
          LET kept == KeptChanges(response.changes, folderCache, monitoredFolders)
          IN  /\ delivered' = Append(delivered, response)
              /\ allChanges' = allChanges
                                 \o ProcessChanges(response.changes, folderCache,
                                                   monitoredFolders)
              /\ docCache' = InvalidateChanged(docCache, kept, delOk)
              /\ IF response.nextPageToken # ""
                 THEN /\ currentToken' = response.nextPageToken
                      /\ mpc' = "walk"
                      /\ UNCHANGED newPageToken
                 ELSE /\ newPageToken' = IF response.newStartPageToken # ""
                                         THEN response.newStartPageToken
                                         ELSE currentToken
                      /\ currentToken' = ""
                      /\ mpc' = "store"
    /\ UNCHANGED <<monitoredFolders, changeToken, folderCache, monitorResult,
                   monitorError, tokenAtStart, caught, startToken, tokenWrites, crashedAt>>

\* drive.changes.list raises: the catch of lines 210-226
ListChangesFails ==
    /\ mpc = "walk"
    /\ accessLog' = Append(accessLog, "changes.list")
    /\ \E error \in ListErrors :
          /\ caught' = <<error>>
          /\ IF IsInvalidTokenError(error)
             THEN mpc' = "fetchStart" /\ UNCHANGED monitorError
             ELSE mpc' = "raised" /\ monitorError' = error.kind
    /\ UNCHANGED <<monitoredFolders, changeToken, folderCache, docCache, currentToken,
                   newPageToken, allChanges, monitorResult, tokenAtStart, delivered,
                   startToken, tokenWrites, crashedAt>>

\* line 196: setChangeToken after the walk
StoreToken ==
    /\ mpc = "store"
    /\ accessLog' = Append(accessLog, "setChangeToken")
    /\ \E writeOk \in BOOLEAN :
          /\ changeToken' = SetChangeToken(changeToken, newPageToken, writeOk)
          /\ tokenWrites' = Append(tokenWrites, [token |-> newPageToken, ok |-> writeOk])
    /\ mpc' = "returnChanges"
    /\ UNCHANGED <<monitoredFolders, folderCache, docCache, currentToken, newPageToken,
                   allChanges, monitorResult, monitorError, tokenAtStart, delivered,
                   caught, startToken, crashedAt>>

\* the return of lines 203-208
ReturnChanges ==
    /\ mpc = "returnChanges"
    /\ monitorResult' = ScanResult(allChanges, newPageToken, FALSE)
    /\ mpc' = "returned"
    /\ UNCHANGED <<monitoredFolders, changeToken, folderCache, docCache, currentToken,
                   newPageToken, allChanges, monitorError, tokenAtStart, delivered,
                   caught, startToken, tokenWrites, crashedAt, accessLog>>

MidPass == {"validate", "readToken", "fetchStart", "storeStart", "returnFirstRun",
            "walk", "store", "returnChanges"}

\* the process dies during the pass: what it held in memory is gone, the store stays
Crash ==
    /\ mpc \in MidPass
    /\ crashedAt' = mpc
    /\ mpc' = "crashed"
    /\ currentToken' = ""
    /\ newPageToken' = ""
    /\ allChanges' = << >>
    /\ folderCache' = {}
    /\ UNCHANGED <<monitoredFolders, changeToken, docCache, monitorResult, monitorError,
                   tokenAtStart, delivered, caught, startToken, tokenWrites, accessLog>>

\* DocumentCacheService.set between two passes: a document is cached
CacheDocument ==
    /\ mpc \in {"idle", "returned", "raised", "crashed"}
    /\ \E id \in CachedDocumentIds : docCache' = docCache \cup {id}
    /\ UNCHANGED <<mpc, monitoredFolders, changeToken, folderCache, currentToken,
                   newPageToken, allChanges, monitorResult, monitorError, tokenAtStart,
                   delivered, caught, startToken, tokenWrites, crashedAt, accessLog>>

----------------------------------------------------------------------------
(* Two passes of getChanges in flight together.  Node runs a pass without  *)
(* interruption up to its next await, so a pass moves from one await to    *)
(* the next in one step.  The change feed is the sequence of the changes   *)
(* recorded upstream; a cursor is a place in it (the changes after it are  *)
(* still to be read), the start cursor is its current end.  allChanges     *)
(* holds the places of the changes the loop of the pass has handled.  A    *)
(* cursor is stored from the start, and the upstream rejects no cursor.    *)

PassIds == {"a", "b"}

\* pageSize of drive.changes.list, scaled
ChangesPageSize == 1

NoPass ==
    [pc |-> "idle", currentToken |-> 0, newPageToken |-> 0, allChanges |-> {},
     startToken |-> 0, isFirstRun |-> FALSE, error |-> "none"]

InitPasses ==
    /\ feed = 0
    /\ globalCursor = 0
    /\ passes = [p \in PassIds |-> NoPass]

\* a change is recorded upstream
RecordChange ==
    /\ feed < MaxFeed
    /\ feed' = feed + 1
    /\ UNCHANGED <<globalCursor, passes>>

\* getChanges up to the first-run test: await getChangeToken('global'), which answers
\* null on a storage error, and isFirstRun = !pageToken
PassReadToken(p, readOk) ==
    /\ passes[p].pc = "idle"
    /\ passes' = [passes EXCEPT ![p] =
                     IF readOk
                     THEN [@ EXCEPT !.pc = "walk", !.currentToken = globalCursor,
                                    !.newPageToken = globalCursor]
                     ELSE [@ EXCEPT !.pc = "fetchStart"]]
    /\ UNCHANGED <<feed, globalCursor>>

\* await this.getStartPageToken()
PassFetchStartToken(p) ==
    /\ passes[p].pc = "fetchStart"
    /\ passes' = [passes EXCEPT ![p].pc = "storeStart", ![p].startToken = feed]
    /\ UNCHANGED <<feed, globalCursor>>

\* await documentCache.setChangeToken(tokenKey, pageToken), then the first-run return
PassStoreStartToken(p, writeOk) ==
    /\ passes[p].pc = "storeStart"
    /\ globalCursor' = IF writeOk THEN passes[p].startToken ELSE globalCursor
    /\ passes' = [passes EXCEPT ![p].pc = "returned", ![p].allChanges = {},
                                ![p].newPageToken = passes[p].startToken,
                                ![p].isFirstRun = TRUE]
    /\ UNCHANGED feed

\* one turn of the page loop: await drive.changes.list({pageToken: currentToken})
PassListChanges(p) ==
    /\ passes[p].pc = "walk"
    /\ LET from == passes[p].currentToken
           upTo == Min(from + ChangesPageSize, feed)
           more == upTo < feed
       IN  passes' = [passes EXCEPT
                         ![p].allChanges = @ \cup ((from + 1)..upTo),
                         ![p].currentToken = IF more THEN upTo ELSE 0,
                         ![p].newPageToken = IF more THEN @ ELSE upTo,
                         ![p].pc = IF more THEN "walk" ELSE "store"]
    /\ UNCHANGED <<feed, globalCursor>>

\* drive.changes.list raises: the catch asks isInvalidTokenError(error)
PassListChangesFails(p, error) ==
    /\ passes[p].pc = "walk"
    /\ passes' = [passes EXCEPT
                     ![p].pc = IF IsInvalidTokenError(error) THEN "fetchStart" ELSE "raised",
                     ![p].error = error.kind]
    /\ UNCHANGED <<feed, globalCursor>>

\* await documentCache.setChangeToken(tokenKey, newPageToken), then the return
PassStoreToken(p, writeOk) ==
    /\ passes[p].pc = "store"
    /\ globalCursor' = IF writeOk THEN passes[p].newPageToken ELSE globalCursor
    /\ passes' = [passes EXCEPT ![p].pc = "returned"]
    /\ UNCHANGED feed

----------------------------------------------------------------------------
(* Google Docs monitor: scanForChanges *)

\* a call of scanForChanges begins; the previous call has ended
ScanForChanges ==
    /\ spc \in {"idle", "returned", "raised"}
    /\ \E limit \in 1..MaxDocuments : maxDocuments' = limit
    /\ spc' = "validate"
    /\ folderIndex' = 1
    /\ scanDocuments' = 0
    /\ scanResult' = << >>
    /\ scanError' = "none"
    /\ scanLog' = << >>
    /\ UNCHANGED <<monitoredFolders, folderCache>>

\* STEP 1 and STEP 2: validatePermissions, then the empty configuration
ScanValidate ==
    /\ spc = "validate"
    /\ \E listing \in Listings, listOk \in BOOLEAN :
          LET permissions == ValidatePermissions(folderCache, monitoredFolders, listing, listOk)
          IN  /\ folderCache' = permissions.cache
              /\ scanLog' = Append(scanLog, IF permissions.valid
                                            THEN "validatePermissions"
                                            ELSE "validatePermissions:invalid")
              /\ IF RefusesAccess(permissions)
                 THEN /\ spc' = "raised"
                      /\ scanError' = "SecurityException"
                      /\ UNCHANGED scanResult
                 ELSE IF monitoredFolders = << >>
                 THEN /\ spc' = "returned"
                      /\ scanResult' = <<0>>
                      /\ UNCHANGED scanError
                 ELSE /\ spc' = "scan"
                      /\ UNCHANGED <<scanResult, scanError>>
    /\ UNCHANGED <<monitoredFolders, maxDocuments, folderIndex, scanDocuments>>

\* STEP 5 and STEP 6 for one monitored folder: the whitelist check, then scanFolder,
\* which lists at most maxDocuments files and answers [] when it fails
ScanFolder ==
    /\ spc = "scan"
    /\ LET folderPath == monitoredFolders[folderIndex]
       IN  IF ~IsFolderWhitelisted(monitoredFolders, folderPath)
           THEN /\ spc' = "raised"
                /\ scanError' = "SecurityException"
                /\ UNCHANGED <<scanLog, scanDocuments, folderIndex>>
           ELSE /\ \E found \in 0..maxDocuments :
                      /\ scanDocuments' = scanDocuments + found
                      /\ spc' = IF scanDocuments + found >= maxDocuments
                                   \/ folderIndex = Len(monitoredFolders)
                                THEN "digest" ELSE "scan"
                /\ folderIndex' = folderIndex + 1
                /\ scanLog' = Append(scanLog, "scanFolder")
                /\ UNCHANGED scanError
    /\ UNCHANGED <<monitoredFolders, folderCache, maxDocuments, scanResult>>

\* the digest limits and the return: validateDigest answers that the documents fit,
\* or the most recent ones are kept
ScanReturn ==
    /\ spc = "digest"
    /\ \E kept \in 0..scanDocuments : scanResult' = <<kept>>
    /\ spc' = "returned"
    /\ UNCHANGED <<monitoredFolders, folderCache, maxDocuments, folderIndex, scanDocuments,
                   scanError, scanLog>>

----------------------------------------------------------------------------
(* Google Docs monitor: scanFolder.  A listed file is given by what happens *)
(* when the loop handles it: `fault` names the call that fails for it       *)
(* ("fetch": fetchDocumentContent raises, "scan": scanForSecrets raises,    *)
(* "alert": alertSecurityTeamAboutSecrets raises, "oversized":              *)
(* validateDocumentSize answers invalid, "none"), `secrets` says whether    *)
(* the scanner finds secrets in its content.  A file's id is its place in   *)
(* the listing.                                                            *)

Faults == {"none", "fetch", "oversized", "scan", "alert"}

Files == [fault : Faults, secrets : BOOLEAN]

\* what drive.files.list can return: at most MaxFiles files
FileListings == UNION {[1..n -> Files] : n \in 0..MaxFiles}

\* what resolveFolderPath can answer
ResolveOutcomes == {"found", "notFound", "error"}

InitFolderScan ==
    /\ fpc = "idle"
    /\ files = << >>
    /\ fileIndex = 1
    /\ folderDocs = << >>

\* the try around one file catches the errors of fetching only
CatchesFetchErrorOnly(fault) == fault = "fetch"

\* the try around one file catches whatever the handling of the file raises
CatchesFileError(fault) == fault \in {"fetch", "scan", "alert"}

\* the handling of the file raises: the call named by fault fails; the alert is sent
\* only for a file with secrets
Raises(file) ==
    \/ file.fault \in {"fetch", "scan"}
    \/ file.fault = "alert" /\ file.secrets

\* the Document pushed for a file
DocumentFor(id, file) ==
    [id |-> id,
     content |-> IF file.secrets THEN "redacted" ELSE "fetched",
     secretsDetected |-> file.secrets]

\* scanFolder up to the loop: the folder is resolved and its files are listed; the
\* outer catch answers [] when one of the two fails.  The call keeps nothing from an
\* earlier call (files and documents are its locals), so one call is followed.
ScanFolderList(resolved, listOk, listing) ==
    /\ fpc = "idle"
    /\ fileIndex' = 1
    /\ folderDocs' = << >>
    /\ IF resolved = "found" /\ listOk
       THEN /\ files' = listing
            /\ fpc' = "files"
       ELSE /\ files' = << >>
            /\ fpc' = "returned"

\* one turn of the loop over the files
ScanFile ==
    /\ fpc = "files"
    /\ fileIndex <= Len(files)
    /\ LET file == files[fileIndex]
       IN  IF Raises(file)
           THEN IF CatchesFileError(file.fault)
                THEN /\ fileIndex' = fileIndex + 1
                     /\ UNCHANGED <<fpc, folderDocs>>
                ELSE /\ fpc' = "returned"
                     /\ folderDocs' = << >>
                     /\ UNCHANGED fileIndex
           ELSE /\ fileIndex' = fileIndex + 1
                /\ folderDocs' = IF file.fault = "oversized"
                                 THEN folderDocs
                                 ELSE Append(folderDocs, DocumentFor(fileIndex, file))
                /\ UNCHANGED fpc
    /\ UNCHANGED files

\* the loop has ended: return documents
ScanFolderReturn ==
    /\ fpc = "files"
    /\ fileIndex > Len(files)
    /\ fpc' = "returned"
    /\ UNCHANGED <<files, fileIndex, folderDocs>>

----------------------------------------------------------------------------
(* Specifications *)

InitProgram ==
    /\ pc = "idle"
    /\ input = NoInput
    /\ sanitizedDocuments = << >>
    /\ prompt = NoPrompt
    /\ generatorCalls = << >>
    /\ output = << >>
    /\ validation = << >>
    /\ result = << >>
    /\ thrown = "none"
    /\ steps = << >>
    /\ now = 0
    /\ queue = << >>
    /\ queueFile = << >>
    /\ securityLog = << >>
    /\ queueCall = [op |-> "none", id |-> <<0, "a">>, error |-> "none"]
    /\ mpc = "idle"
    /\ monitoredFolders \in MonitoredFolderConfigs
    /\ changeToken = ""
    /\ folderCache = {}
    /\ docCache = {}
    /\ currentToken = ""
    /\ newPageToken = ""
    /\ allChanges = << >>
    /\ monitorResult = NoResult
    /\ monitorError = "none"
    /\ tokenAtStart = ""
    /\ delivered = << >>
    /\ caught = << >>
    /\ startToken = << >>
    /\ tokenWrites = << >>
    /\ crashedAt = "none"
    /\ accessLog = << >>

InitScan ==
    /\ spc = "idle"
    /\ maxDocuments = 1
    /\ folderIndex = 1
    /\ scanDocuments = 0
    /\ scanResult = << >>
    /\ scanError = "none"
    /\ scanLog = << >>

\* the services after construction, the document cache with config.enabled as given
InitServicesWith(enabled) ==
    /\ flagCalls = [c \in Callers |-> NoFlagCall]
    /\ cacheEnabled = enabled
    /\ initialized = FALSE
    /\ redis = FALSE
    /\ redisStore = << >>
    /\ fallbackCache = << >>
    /\ stats = [hits |-> 0, misses |-> 0]
    /\ cacheCall = [op |-> "none"]
    /\ storedCursor = << >>
    /\ getsCompleted = 0
    /\ sanitizerCall = [op |-> "none"]
    /\ InitBreaker
    /\ InitFolderScan
    /\ InitValidate
    /\ InitPasses

\* DEFAULT_CONFIG: enabled is true
InitServices == InitServicesWith(TRUE)

Init ==
    /\ InitProgram
    /\ InitScan
    /\ InitServices
    /\ pvCall = [op |-> "none"]

\* one call of the gateway
NextGateway ==
    \/ \E in \in Inputs : GenerateSecureTranslation(in)
    \/ Step1Sanitize
    \/ Step2Prepare
    \/ Step3Invoke
    \/ Step4Validate
    \/ Step5Review
    \/ Step6Critical
    \/ Step7Return

Spec == Init /\ [][NextGateway]_vars

ReviewIds == {GenerateId(t, x) : t \in 0..MaxTime, x \in RandomSuffixes}

FlagForReviewCall ==
    /\ \E reason \in Reasons, suffix \in RandomSuffixes, writeOk \in BOOLEAN :
            FlagForReview(reason, suffix, writeOk)
    /\ UNCHANGED <<gwVars, monVars, extVars>>

ApproveCall ==
    /\ \E id \in ReviewIds, by \in Reviewers, writeOk \in BOOLEAN : Approve(id, by, writeOk)
    /\ UNCHANGED <<gwVars, monVars, extVars>>

RejectCall ==
    /\ \E id \in ReviewIds, by \in Reviewers, writeOk \in BOOLEAN : Reject(id, by, writeOk)
    /\ UNCHANGED <<gwVars, monVars, extVars>>

CleanupOldReviewsCall ==
    /\ \E writeOk \in BOOLEAN : CleanupOldReviews(writeOk)
    /\ UNCHANGED <<gwVars, monVars, extVars>>

ClockTick == Tick /\ UNCHANGED <<gwVars, monVars, extVars>>

\* the review queue under its public operations
NextQueue == FlagForReviewCall \/ ApproveCall \/ RejectCall \/ ClockTick

SpecQueue == Init /\ [][NextQueue]_vars

\* flagForReview with the one reason given; the reason is not read by approve or reject
FlagOutputCall ==
    /\ \E suffix \in RandomSuffixes, writeOk \in BOOLEAN : FlagForReview("HIGH", suffix, writeOk)
    /\ UNCHANGED <<gwVars, monVars, extVars>>

InitReview == Init /\ monitoredFolders = << >>

\* the reviewers' decisions on flagged outputs
NextReview == FlagOutputCall \/ ApproveCall \/ RejectCall \/ ClockTick

SpecReview == InitReview /\ [][NextReview]_vars

\* the review queue under its public operations and its maintenance operation
NextMaintainedQueue ==
    FlagForReviewCall \/ ApproveCall \/ RejectCall \/ CleanupOldReviewsCall \/ ClockTick

SpecMaintainedQueue == Init /\ [][NextMaintainedQueue]_vars

\* flagged outputs, approvals and the maintenance operation
NextCleanup == FlagOutputCall \/ ApproveCall \/ CleanupOldReviewsCall \/ ClockTick

SpecCleanup == InitReview /\ [][NextCleanup]_vars

FlagFrame ==
    UNCHANGED <<gwVars, monVars, pvVars, scVars, dcVars, hcVars, saVars, cbVars, fsVars,
                vsVars, cpVars>>

FlagBeginStep ==
    /\ \E c \in Callers, reason \in Reasons, suffix \in RandomSuffixes, writeOk \in BOOLEAN :
            FlagBegin(c, reason, suffix, writeOk)
    /\ FlagFrame

FlagNotifyStep == (\E c \in Callers : FlagNotify(c)) /\ FlagFrame

FlagRaiseStep == (\E c \in Callers : FlagRaise(c)) /\ FlagFrame

FlagClockTick == Tick /\ UNCHANGED flagCalls /\ FlagFrame

CacheFrame == UNCHANGED <<gwVars, queue, queueFile, securityLog, queueCall, monVars,
                          pvVars, scVars, cqVars, saVars, cbVars, fsVars, vsVars, cpVars>>

\* flagForReview called by several callers at once, one call each
NextFlags == FlagBeginStep \/ FlagNotifyStep \/ FlagRaiseStep \/ FlagClockTick

SpecFlags == Init /\ [][NextFlags]_vars

CacheGetCall ==
    /\ \E documentId \in DocumentIds :
       \E pingOk \in PingOutcomes :
       \E storageOk \in StorageOutcomes(pingOk) :
            CacheGet(documentId, pingOk, storageOk)
    /\ getsCompleted' = getsCompleted + 1
    /\ UNCHANGED <<now, storedCursor>> /\ CacheFrame

CacheSetCall ==
    /\ \E document \in CachedDocuments, ttlSeconds \in TtlArguments :
       \E pingOk \in PingOutcomes :
       \E storageOk \in StorageOutcomes(pingOk) :
            CacheSet(document, ttlSeconds, pingOk, storageOk)
    /\ UNCHANGED <<now, storedCursor, getsCompleted>> /\ CacheFrame

CacheInvalidateCall ==
    /\ \E documentId \in DocumentIds :
       \E pingOk \in PingOutcomes :
       \E storageOk \in StorageOutcomes(pingOk) :
            CacheInvalidate(documentId, pingOk, storageOk)
    /\ UNCHANGED <<now, storedCursor, getsCompleted>> /\ CacheFrame

CacheInvalidateManyCall ==
    /\ \E documentIds \in DocumentIdLists :
       \E pingOk \in PingOutcomes :
       \E storageOk \in StorageOutcomes(pingOk) :
            CacheInvalidateMany(documentIds, pingOk, storageOk)
    /\ UNCHANGED <<now, storedCursor, getsCompleted>> /\ CacheFrame

CacheSetChangeTokenCall ==
    /\ \E token \in Tokens :
       \E pingOk \in PingOutcomes :
       \E storageOk \in StorageOutcomes(pingOk) :
            /\ CacheSetChangeToken("global", token, pingOk, storageOk)
            /\ storedCursor' = IF cacheCall'.failed THEN storedCursor ELSE <<token>>
    /\ UNCHANGED <<now, getsCompleted>> /\ CacheFrame

CacheGetChangeTokenCall ==
    /\ \E pingOk \in PingOutcomes :
       \E storageOk \in StorageOutcomes(pingOk) :
            CacheGetChangeToken("global", pingOk, storageOk)
    /\ UNCHANGED <<now, storedCursor, getsCompleted>> /\ CacheFrame

CacheClearCall ==
    /\ \E pingOk \in PingOutcomes :
       \E storageOk \in StorageOutcomes(pingOk) :
            CacheClear(pingOk, storageOk)
    /\ getsCompleted' = IF cacheCall'.failed THEN getsCompleted ELSE 0
    /\ UNCHANGED <<now, storedCursor>> /\ CacheFrame

RedisExpireStep == RedisExpire /\ UNCHANGED <<now, storedCursor, getsCompleted>> /\ CacheFrame

CacheClockTick == Tick /\ UNCHANGED <<gwVars, monVars, extVars>>

\* the document cache service under its operations, the server's expiry and the clock
NextCache ==
    \/ CacheGetCall
    \/ CacheSetCall
    \/ CacheInvalidateCall
    \/ CacheInvalidateManyCall
    \/ CacheSetChangeTokenCall
    \/ CacheGetChangeTokenCall
    \/ CacheClearCall
    \/ RedisExpireStep
    \/ CacheClockTick

\* the cache service does not read the monitored folders
InitCache == Init /\ monitoredFolders = << >>

SpecCache == InitCache /\ [][NextCache]_vars

\* new DocumentCacheService({enabled: false})
InitDisabledCache ==
    /\ InitProgram
    /\ InitScan
    /\ InitServicesWith(FALSE)
    /\ pvCall = [op |-> "none"]
    /\ monitoredFolders = << >>

\* the operations of the service that act without a Redis client
NextDisabledCache ==
    \/ CacheGetCall
    \/ CacheSetCall
    \/ CacheInvalidateCall
    \/ CacheInvalidateManyCall
    \/ CacheSetChangeTokenCall
    \/ CacheGetChangeTokenCall
    \/ CacheClearCall
    \/ CacheClockTick

SpecDisabledCache == InitDisabledCache /\ [][NextDisabledCache]_vars

RestartStep ==
    Restart /\ getsCompleted' = 0 /\ UNCHANGED <<now, storedCursor>> /\ CacheFrame

\* the cache service over process restarts
NextRestarts == NextCache \/ RestartStep

SpecRestarts == InitCache /\ [][NextRestarts]_vars

GetChangesCall == GetChanges /\ UNCHANGED <<gwVars, rqVars, extVars>>
ValidateAccessStep == ValidateAccess /\ UNCHANGED <<gwVars, rqVars, extVars>>
ReadTokenStep == ReadToken /\ UNCHANGED <<gwVars, rqVars, extVars>>
FetchStartTokenStep == FetchStartToken /\ UNCHANGED <<gwVars, rqVars, extVars>>
StoreStartTokenStep == StoreStartToken /\ UNCHANGED <<gwVars, rqVars, extVars>>
ReturnFirstRunStep == ReturnFirstRun /\ UNCHANGED <<gwVars, rqVars, extVars>>
ListChangesStep == ListChanges /\ UNCHANGED <<gwVars, rqVars, extVars>>
ListChangesFailsStep == ListChangesFails /\ UNCHANGED <<gwVars, rqVars, extVars>>
StoreTokenStep == StoreToken /\ UNCHANGED <<gwVars, rqVars, extVars>>
ReturnChangesStep == ReturnChanges /\ UNCHANGED <<gwVars, rqVars, extVars>>
CrashStep == Crash /\ UNCHANGED <<gwVars, rqVars, extVars>>
CacheDocumentStep == CacheDocument /\ UNCHANGED <<gwVars, rqVars, extVars>>

\* the changes monitor: passes of getChanges one after another
NextMonitor ==
    \/ GetChangesCall
    \/ ValidateAccessStep
    \/ ReadTokenStep
    \/ FetchStartTokenStep
    \/ StoreStartTokenStep
    \/ ReturnFirstRunStep
    \/ ListChangesStep
    \/ ListChangesFailsStep
    \/ StoreTokenStep
    \/ ReturnChangesStep
    \/ CrashStep
    \/ CacheDocumentStep

SpecMonitor == Init /\ [][NextMonitor]_vars

\* what the validator's operations leave alone
ValidatorFrame ==
    UNCHANGED <<gwVars, rqVars, scVars, svcVars, mpc, changeToken, docCache, currentToken,
                newPageToken,
                allChanges, monitorResult, monitorError, tokenAtStart, delivered,
                caught, startToken, tokenWrites, crashedAt, accessLog>>

LoadConfigStep == LoadConfig /\ ValidatorFrame
ValidatePermissionsStep == ValidatePermissionsCall /\ ValidatorFrame
IsFolderIdWhitelistedStep == IsFolderIdWhitelistedCall /\ ValidatorFrame
MatchesPatternStep == MatchesPatternCall /\ ValidatorFrame
ClearCacheStep == ClearCache /\ ValidatorFrame

\* the permission validator under its operations
NextValidator ==
    \/ LoadConfigStep
    \/ ValidatePermissionsStep
    \/ IsFolderIdWhitelistedStep
    \/ ClearCacheStep

SpecValidator == Init /\ [][NextValidator]_vars

\* what scanForChanges leaves alone
ScanFrame ==
    UNCHANGED <<gwVars, rqVars, pvVars, svcVars, mpc, changeToken, docCache, currentToken,
                newPageToken, allChanges, monitorResult, monitorError, tokenAtStart,
                delivered, caught, startToken, tokenWrites, crashedAt, accessLog>>

ScanForChangesStep == ScanForChanges /\ ScanFrame
ScanValidateStep == ScanValidate /\ ScanFrame
ScanFolderStep == ScanFolder /\ ScanFrame
ScanReturnStep == ScanReturn /\ ScanFrame
ScanLoadConfigStep ==
    /\ spc \in {"idle", "returned", "raised"}
    /\ LoadConfig
    /\ UNCHANGED <<gwVars, rqVars, scVars, svcVars, mpc, changeToken, docCache, currentToken,
                   newPageToken, allChanges, monitorResult, monitorError, tokenAtStart,
                   delivered, caught, startToken, tokenWrites, crashedAt, accessLog>>

\* the Google Docs monitor: calls of scanForChanges one after another
NextScan ==
    \/ ScanForChangesStep
    \/ ScanValidateStep
    \/ ScanFolderStep
    \/ ScanReturnStep
    \/ ScanLoadConfigStep

SpecScan == Init /\ [][NextScan]_vars

\* the two monitors one after the other: passes of getChanges, and once a pass was
\* refused or before any pass, calls of scanForChanges
ChangesMonitorTurn == spc = "idle" /\ pvCall.op = "none" /\ NextMonitor

DocsMonitorTurn ==
    /\ mpc = "idle" \/ (mpc = "raised" /\ monitorError = "SecurityException")
    /\ NextScan

NextAccess == ChangesMonitorTurn \/ DocsMonitorTurn

SpecAccess == Init /\ [][NextAccess]_vars

\* matchesPattern on every path and pattern of the bounded sets
InitMatch ==
    /\ InitProgram
    /\ InitScan
    /\ InitServices
    /\ pvCall \in [op : {"matchesPattern"}, path : PathTexts, pattern : PatternTexts]

NextMatch == MatchesPatternStep

SpecMatch == InitMatch /\ [][NextMatch]_vars

BreakerFrame ==
    UNCHANGED <<gwVars, queue, queueFile, securityLog, queueCall, monVars, pvVars, scVars,
                cqVars, dcVars, hcVars, saVars, fsVars, vsVars, cpVars>>

ExecuteStep == Execute /\ UNCHANGED now /\ BreakerFrame

SucceedStep == Succeed /\ UNCHANGED now /\ BreakerFrame

FailStep == Fail /\ UNCHANGED now /\ BreakerFrame

BreakerClockTick == Tick /\ UNCHANGED <<gwVars, monVars, extVars>>

\* calls through the circuit breaker, one at a time, and the clock
NextBreaker == ExecuteStep \/ SucceedStep \/ FailStep \/ BreakerClockTick

SpecBreaker == InitCache /\ [][NextBreaker]_vars

SanitizerFrame ==
    UNCHANGED <<gwVars, rqVars, monVars, pvVars, scVars, cqVars, dcVars, hcVars, cbVars,
                fsVars, vsVars, cpVars>>

SanitizeContentStep == SanitizeContentCall /\ SanitizerFrame

SanitizeAgainStep == SanitizeAgainCall /\ SanitizerFrame

\* the sanitizer given every content of up to MaxSanitizeLen symbols
InitSanitizer ==
    /\ InitProgram
    /\ monitoredFolders = << >>
    /\ InitScan
    /\ pvCall = [op |-> "none"]
    /\ flagCalls = [c \in Callers |-> NoFlagCall]
    /\ cacheEnabled = TRUE
    /\ initialized = FALSE
    /\ redis = FALSE
    /\ redisStore = << >>
    /\ fallbackCache = << >>
    /\ stats = [hits |-> 0, misses |-> 0]
    /\ cacheCall = [op |-> "none"]
    /\ storedCursor = << >>
    /\ getsCompleted = 0
    /\ sanitizerCall \in [op : {"sanitizeContent"}, content : SanitizerInputs]
    /\ InitBreaker
    /\ InitFolderScan
    /\ InitValidate
    /\ InitPasses

NextSanitizer == SanitizeContentStep \/ SanitizeAgainStep

SpecSanitizer == InitSanitizer /\ [][NextSanitizer]_vars

\* the sanitizer given two lines separated by up to MaxBreaks line breaks
InitLineBreaks ==
    /\ InitProgram
    /\ monitoredFolders = << >>
    /\ InitScan
    /\ pvCall = [op |-> "none"]
    /\ flagCalls = [c \in Callers |-> NoFlagCall]
    /\ cacheEnabled = TRUE
    /\ initialized = FALSE
    /\ redis = FALSE
    /\ redisStore = << >>
    /\ fallbackCache = << >>
    /\ stats = [hits |-> 0, misses |-> 0]
    /\ cacheCall = [op |-> "none"]
    /\ storedCursor = << >>
    /\ getsCompleted = 0
    /\ sanitizerCall \in [op : {"sanitizeContent"}, content : TwoLineInputs]
    /\ InitBreaker
    /\ InitFolderScan
    /\ InitValidate
    /\ InitPasses

SpecLineBreaks == InitLineBreaks /\ [][NextSanitizer]_vars

FolderScanFrame ==
    UNCHANGED <<gwVars, rqVars, monVars, pvVars, scVars, cqVars, dcVars, hcVars, saVars,
                cbVars, vsVars, cpVars>>

ScanFolderListStep ==
    /\ \E resolved \in ResolveOutcomes, listOk \in BOOLEAN :
       \E listing \in (IF resolved = "found" /\ listOk THEN FileListings ELSE {<< >>}) :
            ScanFolderList(resolved, listOk, listing)
    /\ FolderScanFrame

ScanFileStep == ScanFile /\ FolderScanFrame

ScanFolderReturnStep == ScanFolderReturn /\ FolderScanFrame

\* one call of scanFolder
NextFolderScan == ScanFolderListStep \/ ScanFileStep \/ ScanFolderReturnStep

SpecFolderScan == InitCache /\ [][NextFolderScan]_vars

PassFrame ==
    UNCHANGED <<gwVars, rqVars, monVars, pvVars, scVars, cqVars, dcVars, hcVars, saVars,
                cbVars, fsVars, vsVars>>

\* the errors of drive.changes.list that do not reject the cursor
TransientErrors == {error \in ListErrors : error.kind = "transient"}

RecordChangeStep == RecordChange /\ PassFrame

PassReadTokenStep ==
    (\E p \in PassIds, readOk \in BOOLEAN : PassReadToken(p, readOk)) /\ PassFrame

PassFetchStartTokenStep == (\E p \in PassIds : PassFetchStartToken(p)) /\ PassFrame

PassStoreStartTokenStep ==
    (\E p \in PassIds, writeOk \in BOOLEAN : PassStoreStartToken(p, writeOk)) /\ PassFrame

PassListChangesStep == (\E p \in PassIds : PassListChanges(p)) /\ PassFrame

PassListChangesFailsStep ==
    (\E p \in PassIds, error \in TransientErrors : PassListChangesFails(p, error))
    /\ PassFrame

PassStoreTokenStep ==
    (\E p \in PassIds, writeOk \in BOOLEAN : PassStoreToken(p, writeOk)) /\ PassFrame

\* two passes of getChanges that share the cursor, and the upstream feed
NextPasses ==
    \/ RecordChangeStep
    \/ PassReadTokenStep
    \/ PassFetchStartTokenStep
    \/ PassStoreStartTokenStep
    \/ PassListChangesStep
    \/ PassListChangesFailsStep
    \/ PassStoreTokenStep

SpecPasses == InitCache /\ [][NextPasses]_vars

ValidateFrame ==
    UNCHANGED <<gwVars, rqVars, monVars, pvVars, scVars, cqVars, dcVars, hcVars, saVars,
                cbVars, fsVars, cpVars>>

ValidateSanitizationStep ==
    /\ \E original \in ValidateTexts, sanitized \in ValidateTexts :
            ValidateSanitization(original, sanitized)
    /\ ValidateFrame

SanitizeBetweenStep == SanitizeBetween /\ ValidateFrame

\* validateSanitization called again and again on one sanitizer
NextValidate == ValidateSanitizationStep \/ SanitizeBetweenStep

SpecValidate == InitCache /\ [][NextValidate]_vars

----------------------------------------------------------------------------
(* Claims about the secure translation gateway and the review queue *)

HasCritical == validation # << >> /\ HasSeverity(validation[1].issues, "CRITICAL")

InputHasSecret == \E i \in DOMAIN input.documents :
                      \E k \in DOMAIN input.documents[i].content :
                          input.documents[i].content[k] = "KEY"

IsPrefix(s, t) == Len(s) <= Len(t) /\ SubSeq(t, 1, Len(s)) = s

\* C1: generateSecureTranslation returns a result only when the validation of the
\* generated output has requiresManualReview = false (risk LOW or MEDIUM); whenever
\* requiresManualReview is true the call raises and returns nothing.
C1_ReturnOnlyWithoutReview ==
    /\ result # << >> =>
          /\ validation # << >>
          /\ ~validation[1].requiresManualReview
          /\ validation[1].riskLevel \in {"LOW", "MEDIUM"}
          /\ thrown = "none"
    /\ (validation # << >> /\ validation[1].requiresManualReview /\ pc # "step5") =>
          /\ pc = "raised"
          /\ thrown # "none"
          /\ result = << >>

C1_Witness ==
    /\ pc = "raised"
    /\ validation # << >>
    /\ validation[1].riskLevel = "HIGH"
    /\ thrown = "ReviewRequired"

\* C2: every call of flagForReview raises a blocking error and leaves the queue with
\* exactly one more PENDING item than before, every earlier item unchanged.
C2_FlagAddsOnePending ==
    [][FlagForReviewCall =>
          /\ queueCall'.error = "SecurityException"
          /\ Len(queue') = Len(queue) + 1
          /\ PendingCount(queue') = PendingCount(queue) + 1
          /\ SubSeq(queue', 1, Len(queue)) = queue]_vars

\* C3: when the validated output has a CRITICAL issue the gateway raises at once and
\* creates no review-queue item for that output.
C3_CriticalNeverQueued ==
    (HasCritical /\ pc # "step5") =>
        /\ pc = "raised"
        /\ queue = << >>
        /\ securityLog = << >>

\* C4: when an input document contains a CRITICAL-class secret the gateway raises
\* before the generation collaborator is ever invoked.
C4_SecretInputNeverGenerated ==
    (pc # "idle" /\ InputHasSecret) => generatorCalls = << >>

\* C5: the steps of a call occur in the fixed order sanitize, build request, invoke
\* generator, validate output, return-or-block; the generator only receives document
\* content that sanitizeContent returned; no result is returned before validateOutput
\* has run on the generated text.
C5_FixedStepOrder ==
    /\ \/ IsPrefix(steps, <<"sanitize", "prepare", "invoke", "validate", "flag">>)
       \/ IsPrefix(steps, <<"sanitize", "prepare", "invoke", "validate", "return">>)
    /\ \A c \in DOMAIN generatorCalls :
          generatorCalls[c].documents =
              [i \in DOMAIN input.documents |->
                  SanitizeContent(input.documents[i].content).sanitized]
    /\ result # << >> =>
          /\ output # << >>
          /\ result[1].content = output[1]
          /\ validation = <<ValidateOutput(output[1], input.format)>>
          /\ result[1].metadata.validationIssues = validation[1].issues

C5_Witness ==
    /\ pc = "returned"
    /\ steps = <<"sanitize", "prepare", "invoke", "validate", "return">>
    /\ \E i \in DOMAIN input.documents : input.documents[i].content = <<"SYS", "w">>
    /\ generatorCalls[1].documents[1] = <<"RED", "w">>


----------------------------------------------------------------------------
(* Claims about the Drive changes monitor *)

\* the pass handed back a change list
ReturnedChanges == mpc = "returned" /\ monitorResult # NoResult

\* the change feed failed for a reason other than the cursor, or the process died
\* in the page walk
WalkFailed ==
    \/ caught # << >> /\ caught[1].kind # "invalidPageToken"
    \/ mpc = "crashed" /\ crashedAt = "walk"

\* the change feed rejected the cursor it was given
CursorRejected == caught # << >> /\ caught[1].kind = "invalidPageToken"

\* the pass asked the store to keep exactly this token, and the store has it unless
\* the write failed
Persisted(token) ==
    /\ Len(tokenWrites) = 1
    /\ tokenWrites[1].token = token
    /\ tokenWrites[1].ok => changeToken = token

RECURSIVE DeliveredChanges(_)
DeliveredChanges(pages) ==
    IF pages = << >> THEN << >>
    ELSE Head(pages).changes \o DeliveredChanges(Tail(pages))

EntryOf(id) == CHOOSE e \in ChangeEntries : e.fileId = id

\* some parent folder of the file is verified as whitelisted
InWhitelistedFolder(file) ==
    \E i \in DOMAIN file.parents :
        IsFolderIdWhitelisted(folderCache, monitoredFolders, file.parents[i])

\* the entry passes the monitored-type and the whitelisted-folder filter; an entry
\* that reports a removal without file data has nothing to filter on
PassesFilters(change) ==
    IF change.file = << >> THEN change.removed
    ELSE IsMonitoredFileType(change.file[1].mimeType) /\ InWhitelistedFolder(change.file[1])

RECURSIVE FilteredChanges(_)
FilteredChanges(changes) ==
    IF changes = << >> THEN << >>
    ELSE (IF PassesFilters(Head(changes)) THEN <<ChangedDocument(Head(changes))>> ELSE << >>)
         \o FilteredChanges(Tail(changes))

\* C6: the stored cursor is written only after the whole page walk of a pass has
\* succeeded; when the pass fails or the process dies on any page, the cursor stored
\* before the pass is still the stored cursor afterwards and nothing was written.
C6_CursorKeptOnFailedWalk ==
    WalkFailed => changeToken = tokenAtStart /\ tokenWrites = << >>

C8_TwoPagesConcatenated ==
    (ReturnedChanges /\ caught = << >> /\ Len(delivered) = 2) =>
        /\ monitorResult[1].changes = FilteredChanges(DeliveredChanges(delivered))
        /\ delivered[2].newStartPageToken # "" =>
              /\ monitorResult[1].newPageToken = delivered[2].newStartPageToken
              /\ Persisted(delivered[2].newStartPageToken)

C10_OnlyWhitelistedFolders ==
    ReturnedChanges =>
        \A i \in DOMAIN monitorResult[1].changes :
            LET entry == EntryOf(monitorResult[1].changes[i].id)
            IN  entry.file # << >> => InWhitelistedFolder(entry.file[1])


----------------------------------------------------------------------------
(* Claims about the Drive permission validator *)

\* the folder's path matches no pattern of the whitelist
Unexpected(folderId) ==
    \A i \in DOMAIN monitoredFolders :
        ~MatchesPattern(FolderPath(folderId), monitoredFolders[i])

\* C11: whatever the whitelist, when at least one folder the credential sees matches
\* no whitelist pattern, validatePermissions answers valid = false.
C11_UnexpectedFolderInvalid ==
    (pvCall.op = "validatePermissions" /\ \E f \in pvCall.visible : Unexpected(f))
        => ~pvCall.valid

\* a path or pattern lower-cased and with "/" for every backslash
NormalForm(s) ==
    [i \in DOMAIN s |-> IF s[i] = "\\" THEN "/" ELSE IF s[i] = "Eng" THEN "eng" ELSE s[i]]

\* text is head followed by "/" and more
BeginsWithDir(text, head) ==
    /\ Len(text) > Len(head)
    /\ SubSeq(text, 1, Len(head)) = head
    /\ text[Len(head) + 1] = "/"

\* C13: matchesPattern(path, pattern) is true exactly when, after lower-casing both
\* and turning backslashes into "/", the path equals the pattern, or the pattern is
\* P/* and the path is P/ followed by text without "/", or the pattern is P/** and
\* the path is P or begins with P/.
C13_MatchesPatternExact ==
    pvCall.op = "matched" =>
        LET n == NormalForm(pvCall.path)
            p == NormalForm(pvCall.pattern)
            k == Len(p)
        IN  pvCall.answer <=>
              \/ n = p
              \/ /\ k >= 2 /\ p[k - 1] = "/" /\ p[k] = "*"
                 /\ BeginsWithDir(n, SubSeq(p, 1, k - 2))
                 /\ \A j \in (k)..Len(n) : n[j] # "/"
              \/ /\ k >= 3 /\ p[k - 2] = "/" /\ p[k - 1] = "*" /\ p[k] = "*"
                 /\ \/ n = SubSeq(p, 1, k - 3)
                    \/ BeginsWithDir(n, SubSeq(p, 1, k - 3))

C13_Witness ==
    /\ pvCall.op = "matched"
    /\ pvCall.path = <<"Eng", "\\", "x">>
    /\ pvCall.pattern = <<"eng", "/", "*">>
    /\ pvCall.answer

\* C14: isFolderIdWhitelisted answers false for an id that is not in the folder
\* cache and resolves nothing; for a cached id it answers whether the cached path
\* matches the whitelist.
C14_UncachedIdRefused ==
    pvCall.op = "isFolderIdWhitelisted" =>
        /\ ~pvCall.resolved
        /\ pvCall.folderId \notin folderCache => ~pvCall.answer
        /\ pvCall.folderId \in folderCache =>
              (pvCall.answer <=> ~Unexpected(pvCall.folderId))

C14_Witness ==
    /\ pvCall.op = "isFolderIdWhitelisted"
    /\ pvCall.folderId = "engDocs"
    /\ folderCache = {}
    /\ ~Unexpected("engDocs")
    /\ ~pvCall.answer



\* the first call of a log is validatePermissions; when it answered invalid, it is
\* the only call
ValidatedFirst(log) ==
    log # << >> => log[1] \in {"validatePermissions", "validatePermissions:invalid"}

Refused(log) == log # << >> /\ log[1] = "validatePermissions:invalid"

\* C12: getChanges and scanForChanges call validatePermissions before any other
\* collaborator; when it answers invalid they raise a SecurityException and have
\* neither read nor written the cursor, read the change feed or scanned a folder.
C12_RefusedBeforeAnyAccess ==
    /\ ValidatedFirst(accessLog)
    /\ ValidatedFirst(scanLog)
    /\ Refused(accessLog) =>
          /\ mpc = "raised" /\ monitorError = "SecurityException"
          /\ Len(accessLog) = 1
          /\ changeToken = tokenAtStart /\ tokenWrites = << >>
          /\ delivered = << >> /\ caught = << >> /\ startToken = << >>
          /\ monitorResult = NoResult
    /\ Refused(scanLog) =>
          /\ spc = "raised" /\ scanError = "SecurityException"
          /\ Len(scanLog) = 1
          /\ scanDocuments = 0
          /\ scanResult = << >>

C12_Witness ==
    /\ Refused(accessLog) /\ mpc = "raised" /\ tokenAtStart = "t1"
    /\ Refused(scanLog) /\ spc = "raised"



----------------------------------------------------------------------------
(* Claims about the review queue's decisions.                              *)

\* the item stored under an id, or << >> when the id is not in the queue
ItemOf(q, id) == IF id \in QueueIds(q) THEN <<q[QueueIndex(q, id)]>> ELSE << >>

\* approve or reject was called for an id that is unknown or already decided
DecidesNothing ==
    /\ ApproveCall \/ RejectCall
    /\ \/ ItemOf(queue, queueCall'.id) = << >>
       \/ ItemOf(queue, queueCall'.id)[1].status # "PENDING"

\* C15: approve or reject called on an unknown id or on an item that is not PENDING
\* raises an error and leaves the queue, the persisted store and every field of every
\* item unchanged.
C15_DecidedItemRefused ==
    [][DecidesNothing =>
          /\ queueCall'.error # "none"
          /\ queue' = queue
          /\ queueFile' = queueFile
          /\ securityLog' = securityLog]_vars

\* reject has just been refused for an item that was approved before
C15_Witness ==
    /\ queueCall.op = "reject"
    /\ queueCall.error = "AlreadyProcessed"
    /\ ItemOf(queue, queueCall.id) # << >>
    /\ ItemOf(queue, queueCall.id)[1].status = "APPROVED"


\* the statuses of a decided item
Decided == {"APPROVED", "REJECTED"}

\* an item that stays in the queue over a step changes its status only from PENDING to
\* a decision, and only in approve or reject
StatusMovesForward ==
    \A id \in QueueIds(queue) \cap QueueIds(queue') :
        LET before == ItemOf(queue, id)[1]
            after  == ItemOf(queue', id)[1]
        IN  before.status # after.status =>
                /\ before.status = "PENDING"
                /\ after.status \in Decided
                /\ ApproveCall \/ RejectCall

\* a decided item that stays in the queue over a step keeps every field
DecidedItemsKept ==
    \A id \in QueueIds(queue) \cap QueueIds(queue') :
        ItemOf(queue, id)[1].status \in Decided => ItemOf(queue', id) = ItemOf(queue, id)

\* C16: an item's status changes only from PENDING to APPROVED or REJECTED, through
\* approve or reject, and once an item is decided no later flagForReview, approve,
\* reject or cleanupOldReviews changes any of its fields.
C16_DecisionIsFinal == [][StatusMovesForward /\ DecidedItemsKept]_vars

\* C18: in every reachable state the queue holds at most the bound of items that
\* cleanupOldReviews keeps.
C18_QueueBounded == Len(queue) <= KeepLimit


\* every concurrent flagForReview call has raised its SecurityException
AllFlagsFinished == \A c \in Callers : flagCalls[c].pc = "raised"

\* the items held by a queue or by the queue file
ItemsIn(q) == {q[i] : i \in DOMAIN q}

\* C17: under any interleaving of concurrent flagForReview calls no flagged item is
\* lost: once all calls have finished, every call's item has an id distinct from every
\* other call's and is present in the queue and in the persisted store.
C17_NoFlaggedItemLost ==
    AllFlagsFinished =>
        /\ \A c, d \in Callers : c # d => flagCalls[c].item[1].id # flagCalls[d].item[1].id
        /\ \A c \in Callers : /\ flagCalls[c].item[1] \in ItemsIn(queue)
                              /\ flagCalls[c].item[1] \in ItemsIn(queueFile)


----------------------------------------------------------------------------
(* Claims about the document cache service.                                *)

\* the time an entry was stored for has passed
TtlElapsed(entry) == entry.ttl # NoExpiry /\ now >= entry.at + entry.ttl

\* the store the service reads after this step's ensureInitialized, before and after
StoreRead == IF redis' THEN redisStore ELSE fallbackCache

StoreLeft == IF redis' THEN redisStore' ELSE fallbackCache'

\* the document an entry of the store read holds
DocumentOf(entry) == IF redis' THEN Parse(entry.value) ELSE entry.data

\* C19: get never returns an entry whose TTL has elapsed: what it returns is the
\* document of an entry stored under the key whose TTL has not elapsed, and an expired
\* entry met by get is removed from the cache and the call is a miss.
C19_ExpiredNeverServed ==
    [][CacheGetCall =>
          LET key == GetKey(cacheCall'.id[1])
              entry == Lookup(StoreRead, key)
          IN  /\ cacheCall'.result # << >> =>
                    /\ entry # << >>
                    /\ ~TtlElapsed(entry[1])
                    /\ cacheCall'.result[1] = DocumentOf(entry[1])
              /\ (entry # << >> /\ TtlElapsed(entry[1])) =>
                    /\ cacheCall'.result = << >>
                    /\ ~cacheCall'.failed => key \notin DOMAIN StoreLeft]_vars

\* get has just met an expired entry in the in-memory cache, removed it and missed
C19_Witness ==
    /\ cacheCall.op = "get"
    /\ ~cacheCall.failed
    /\ ~redis
    /\ cacheCall.found # << >>
    /\ cacheCall.found[1].ttl > 0
    /\ TtlElapsed(cacheCall.found[1])
    /\ cacheCall.result = << >>
    /\ GetKey(cacheCall.id[1]) \notin DOMAIN fallbackCache

CacheReads == {"get", "getChangeToken"}

CacheWrites == {"set", "invalidate", "invalidateMany", "setChangeToken"}

CacheOperation ==
    \/ CacheGetCall
    \/ CacheSetCall
    \/ CacheInvalidateCall
    \/ CacheInvalidateManyCall
    \/ CacheSetChangeTokenCall
    \/ CacheGetChangeTokenCall

\* C20: get, set, invalidate, invalidateMany, getChangeToken and setChangeToken never
\* raise on a storage error: a read returns a miss (null) and a write changes nothing.
C20_StorageErrorsSwallowed ==
    [][(CacheOperation /\ cacheCall'.failed) =>
          /\ ~cacheCall'.raised
          /\ cacheCall'.op \in CacheReads => cacheCall'.result = << >>
          /\ cacheCall'.op \in CacheWrites =>
                /\ redisStore' = redisStore
                /\ fallbackCache' = fallbackCache]_vars

\* set has just failed on a storage error with a Redis client in place
C20_Witness ==
    /\ cacheCall.op = "set"
    /\ cacheCall.failed
    /\ ~cacheCall.raised
    /\ redis


\* C21: a cursor stored by setChangeToken is returned by every later getChangeToken for
\* the scope, whatever time has passed and across a process restart, until another
\* setChangeToken overwrites it.
C21_CursorSurvives ==
    [][(CacheGetChangeTokenCall /\ storedCursor # << >>) =>
          cacheCall'.result = storedCursor]_vars


----------------------------------------------------------------------------
(* Claims about the content sanitizer.                                     *)

\* C22: sanitization is idempotent: sanitizeContent applied to the sanitized text of
\* sanitizeContent(x) returns that same text as its sanitized output.
C22_SanitizeIdempotent ==
    sanitizerCall.op = "sanitizedAgain" =>
        sanitizerCall.again.sanitized = sanitizerCall.result.sanitized

\* C23: sanitizeContent never returns as a success a sanitized text from which more than
\* half of the original content has been removed: such a result is flagged.
C23_ExcessiveRemovalSignalled ==
    (/\ sanitizerCall.op \in {"sanitized", "sanitizedAgain"}
     /\ 2 * TextLength(sanitizerCall.result.sanitized) < TextLength(sanitizerCall.content))
        => sanitizerCall.result.flagged


----------------------------------------------------------------------------
(* Claims about the output validator.                                      *)

SeverityRank(severity) ==
    CASE severity = "CRITICAL" -> 4
      [] severity = "HIGH" -> 3
      [] severity = "MEDIUM" -> 2
      [] OTHER -> 1

\* the highest severity among the issues, LOW when there are none
HighestSeverity(issues) ==
    CHOOSE sev \in {"LOW", "MEDIUM", "HIGH", "CRITICAL"} :
        /\ \A i \in DOMAIN issues : SeverityRank(issues[i].severity) <= SeverityRank(sev)
        /\ sev = "LOW" \/ \E i \in DOMAIN issues : issues[i].severity = sev

\* C24: validateOutput sets riskLevel to the highest severity among the reported issues
\* (LOW when there are none) and requiresManualReview to true exactly when riskLevel is
\* HIGH or CRITICAL.
C24_RiskIsHighestSeverity ==
    validation # << >> =>
        /\ validation[1].riskLevel = HighestSeverity(validation[1].issues)
        /\ validation[1].requiresManualReview <=>
                validation[1].riskLevel \in {"HIGH", "CRITICAL"}

\* an output with a CRITICAL issue followed by issues of lower severity was validated
C24_Witness ==
    /\ validation # << >>
    /\ Len(validation[1].issues) >= 3
    /\ validation[1].issues[1].severity = "CRITICAL"
    /\ validation[1].issues[Len(validation[1].issues)].severity \in {"LOW", "MEDIUM"}
    /\ validation[1].riskLevel = "CRITICAL"
    /\ validation[1].requiresManualReview

\* the validated output is longer than the expected maximum, at most double it, and
\* deviates in nothing else
OnlySomewhatLong ==
    /\ validation # << >>
    /\ output[1].words > GetExpectedWordCount(input.format).max
    /\ output[1].words <= 2 * GetExpectedWordCount(input.format).max
    /\ output[1].secrets = 0
    /\ output[1].suspicious = 0
    /\ CheckTechnicalLevel(output[1], input.format) = << >>

\* C25: for an output whose word count exceeds the expected maximum but is not more than
\* double it and that has no other deviation, validateOutput reports exactly one issue,
\* OUTPUT_TOO_LONG at LOW severity, with requiresManualReview = false.
C25_SomewhatLongIsLow ==
    OnlySomewhatLong =>
        /\ validation[1].issues = <<Issue("OUTPUT_TOO_LONG", "LOW")>>
        /\ ~validation[1].requiresManualReview


----------------------------------------------------------------------------
(* Claims about the circuit breaker.                                       *)

\* the last n outcomes of the wrapped operation are all `what`
LastAre(outcomes, n, what) ==
    /\ Len(outcomes) >= n
    /\ \A i \in (Len(outcomes) - n + 1)..Len(outcomes) : outcomes[i] = what

\* C26: after failureThreshold consecutive failures the circuit breaker is OPEN, and
\* while it is OPEN and the reset timeout has not elapsed every execute call is rejected
\* with a circuit-open error without invoking the wrapped operation.
C26_OpenRejectsFast ==
    [][/\ (FailStep /\ LastAre(recent', FailureThreshold, "failure")) => cbState' = "OPEN"
       /\ (ExecuteStep /\ cbState = "OPEN" /\ now - openedAt < ResetTimeout) =>
              /\ cbCall'.pc = "rejected"
              /\ cbCall'.error = "CircuitOpen"
              /\ cbState' = "OPEN"]_vars

\* a call has just been rejected by the circuit opened by consecutive failures
C26_Witness ==
    /\ cbState = "OPEN"
    /\ cbCall.pc = "rejected"
    /\ cbCall.error = "CircuitOpen"
    /\ LastAre(recent, FailureThreshold, "failure")
    /\ now - openedAt < ResetTimeout

\* C27: the state changes only from CLOSED to OPEN when consecutive failures reach
\* failureThreshold, from OPEN to HALF_OPEN once resetTimeout has elapsed, from HALF_OPEN
\* to CLOSED when consecutive successes reach successThreshold, and from HALF_OPEN to
\* OPEN on any failure, with the failure counter reset and the open timer restarted.
C27_BreakerTransitions ==
    [][/\ cbState' # cbState =>
              \/ /\ cbState = "CLOSED" /\ cbState' = "OPEN"
                 /\ FailStep
                 /\ LastAre(recent', FailureThreshold, "failure")
              \/ /\ cbState = "OPEN" /\ cbState' = "HALF_OPEN"
                 /\ now - openedAt >= ResetTimeout
              \/ /\ cbState = "HALF_OPEN" /\ cbState' = "CLOSED"
                 /\ SucceedStep
                 /\ LastAre(recent', SuccessThreshold, "success")
              \/ /\ cbState = "HALF_OPEN" /\ cbState' = "OPEN"
                 /\ FailStep
       /\ (FailStep /\ cbState = "HALF_OPEN") =>
              /\ cbState' = "OPEN"
              /\ failureCount' = 0
              /\ openedAt' = now]_vars

\* a failed probe has just reopened the circuit at a later time
C27_Witness ==
    /\ cbState = "OPEN"
    /\ cbCall.pc = "raised"
    /\ failureCount = 0
    /\ openedAt = now
    /\ openedAt > 0


----------------------------------------------------------------------------
(* Claims about the folder scan.                                           *)

\* the places, in the listing, of the files whose handling neither raises nor is refused
Handled(listing) ==
    {i \in 1..Len(listing) : ~Raises(listing[i]) /\ listing[i].fault # "oversized"}

\* C28: in a folder scan a failure to fetch or scan one document causes only that
\* document to be skipped: every other document of the listing is processed and
\* returned, in the order listed, and the scan returns instead of aborting.
C28_OnlyFailedDocumentSkipped ==
    (fpc = "returned" /\ files # << >>) =>
        /\ {folderDocs[j].id : j \in 1..Len(folderDocs)} = Handled(files)
        /\ \A j \in 1..Len(folderDocs) : folderDocs[j] = DocumentFor(folderDocs[j].id, files[folderDocs[j].id])
        /\ \A j, k \in 1..Len(folderDocs) : j < k => folderDocs[j].id < folderDocs[k].id

\* a scan has returned the document listed after one whose scan failed
C28_Witness ==
    /\ fpc = "returned"
    /\ Len(files) = 2
    /\ files[1].fault = "scan"
    /\ Len(folderDocs) = 1
    /\ folderDocs[1].id = 2


----------------------------------------------------------------------------
(* Claims about the effects of flagForReview.                              *)

\* the ids of the review items the audit log has a FLAGGED_FOR_REVIEW line for
FlaggedInLog(log) ==
    {log[i].reviewId : i \in {j \in DOMAIN log : log[j].eventType = "FLAGGED_FOR_REVIEW"}}

\* C29: flagForReview adds the item, persists the queue, notifies and writes the audit
\* line before it raises: whenever a caller observes the blocking error, the item with
\* the review id the error carries is in the persisted queue store and in the audit log.
C29_PersistedBeforeBlocked ==
    \A c \in Callers :
        flagCalls[c].pc = "raised" =>
            /\ flagCalls[c].item[1].id \in QueueIds(queueFile)
            /\ flagCalls[c].item[1].id \in FlaggedInLog(securityLog)


----------------------------------------------------------------------------
(* Claims about cleanupOldReviews.                                         *)

\* C30: after cleanupOldReviews the queue holds exactly the min(limit, n) items with
\* the most recent flaggedAt among the n items it held before, each item unchanged,
\* and every removed item was flagged no later than every retained item.
C30_CleanupKeepsNewest ==
    [][CleanupOldReviewsCall =>
          /\ Len(queue') = Min(KeepLimit, Len(queue))
          /\ Cardinality(ItemsIn(queue')) = Len(queue')
          /\ ItemsIn(queue') \subseteq ItemsIn(queue)
          /\ \A removed \in ItemsIn(queue) \ ItemsIn(queue') :
                \A retained \in ItemsIn(queue') : removed.flaggedAt <= retained.flaggedAt]_vars

\* cleanupOldReviews has removed the item flagged before the items it kept
C30_Witness ==
    /\ queueCall.op = "cleanupOldReviews"
    /\ Len(queue) = KeepLimit
    /\ Cardinality(FlaggedInLog(securityLog)) > KeepLimit
    /\ \A i \in DOMAIN queue : queue[i].flaggedAt > 0


----------------------------------------------------------------------------
(* Claims about the patterns left in sanitized text.                       *)

\* some configured dangerous pattern matches the text
MatchesDangerous(text) ==
    \E k \in DOMAIN DangerousPatterns : PatternMatches(text, DangerousPatterns[k]) # << >>

\* C31: for every input the sanitized text returned by sanitizeContent contains no match
\* of any configured dangerous pattern.
C31_NoPatternInSanitized ==
    sanitizerCall.op \in {"sanitized", "sanitizedAgain"} =>
        ~MatchesDangerous(sanitizerCall.result.sanitized)


\* C32: validateSanitization(original, sanitized) returns false on every call in which
\* some configured dangerous pattern matches the sanitized text or more than half of the
\* original length was removed, and true otherwise, whatever calls were made before.
C32_ValidateDependsOnArguments ==
    validateCall.op = "validateSanitization" =>
        validateCall.result =
            ~(\/ MatchesDangerous(validateCall.sanitized)
              \/ 2 * TextLength(validateCall.sanitized) < TextLength(validateCall.original))


\* C33: sanitizeContent caps runs of consecutive line breaks at two and keeps them as
\* line breaks: two lines with three or more line breaks between them come back as the
\* two lines separated by exactly two line breaks.
C33_LineBreaksCapped ==
    sanitizerCall.op \in {"sanitized", "sanitizedAgain"} =>
        \A a \in Lines, b \in Lines, k \in 3..MaxBreaks :
            sanitizerCall.content = a \o Breaks(k) \o b =>
                sanitizerCall.result.sanitized = a \o Breaks(2) \o b


----------------------------------------------------------------------------
(* Claims about the folders validatePermissions reads.                     *)

\* C34: the folders validatePermissions partitions into whitelisted and unexpected are
\* all the folders visible to the credential, also when the upstream answers the folder
\* listing in more than one page.
C34_AllVisibleFoldersPartitioned ==
    (/\ pvCall.op = "validatePermissions"
     /\ pvCall.listOk
     /\ monitoredFolders # << >>)
        => pvCall.listing = pvCall.visible


----------------------------------------------------------------------------
(* Claims about the number of documents of a scan.                         *)

\* C35: scanForChanges never returns more than maxDocuments documents, whatever the
\* number of monitored folders and of documents per folder.
C35_AtMostMaxDocuments ==
    (spc = "returned" /\ scanResult # << >>) => scanResult[1] <= maxDocuments


----------------------------------------------------------------------------
(* Claims about the stored cursor of the changes monitor.                  *)

\* C36: when the read of the stored cursor fails while a cursor is stored, getChanges
\* does not overwrite the stored cursor with a fresh start cursor: a stored cursor is
\* replaced by a start cursor only after the upstream rejected it.
C36_ReadFailureKeepsCursor ==
    [][(StoreStartTokenStep /\ changeToken # "" /\ caught = << >>)
          => changeToken' = changeToken]_vars


\* both passes have ended
PassesEnded == \A p \in PassIds : passes[p].pc \in {"returned", "raised"}

\* the changes a pass returned
Returned(p) == IF passes[p].pc = "returned" THEN passes[p].allChanges ELSE {}

\* C37: under any interleaving of two concurrent getChanges passes that share the
\* 'global' cursor no upstream change is skipped: every change recorded after the cursor
\* stored at first is returned by one of the passes or lies after the cursor stored at
\* the end.
C37_NoChangeSkipped ==
    PassesEnded =>
        \A change \in 1..feed :
            \/ \E p \in PassIds : change \in Returned(p)
            \/ change > globalCursor


----------------------------------------------------------------------------
(* Claims about the counters and the switch of the document cache.         *)

\* C38: every completed get adds one to exactly one of the two counters, to the hits
\* exactly when a document is returned and to the misses otherwise, so that hits plus
\* misses is the number of get calls completed since the cache was last cleared.
C38_EveryGetCountedOnce ==
    [][/\ CacheGetCall =>
            LET hit == cacheCall'.result # << >>
            IN  /\ stats'.hits = stats.hits + (IF hit THEN 1 ELSE 0)
                /\ stats'.misses = stats.misses + (IF hit THEN 0 ELSE 1)
       /\ stats'.hits + stats'.misses = getsCompleted']_vars

\* a hit and a miss were counted after a clear that took effect, over either store
C38_Witness ==
    /\ stats = [hits |-> 1, misses |-> 1]
    /\ getsCompleted = 2
    /\ cacheCall.op = "get"

\* C39: when the cache is disabled by configuration (enabled = false), set stores
\* nothing and every get is a miss.
C39_DisabledCacheStoresNothing ==
    ~cacheEnabled =>
        /\ redisStore = << >>
        /\ fallbackCache = << >>
        /\ stats.hits = 0
        /\ cacheCall.op = "get" => cacheCall.result = << >>


\* what getChangeToken(folderId) answers from the store the service is using
StoredToken(folderId) ==
    LET key == ChangesKey(folderId)
    IN  IF redis
        THEN RedisGet(redisStore, key)
        ELSE IF key \in DOMAIN fallbackCache
             THEN <<fallbackCache[key].data.content>>
             ELSE << >>

\* get, set, invalidate, invalidateMany and clear
DocumentContentCall ==
    \/ CacheGetCall
    \/ CacheSetCall
    \/ CacheInvalidateCall
    \/ CacheInvalidateManyCall
    \/ CacheClearCall

\* C40: the document-content operations of the cache (get, set, invalidate,
\* invalidateMany, clear) never remove or alter a stored change token: getChangeToken
\* answers the same value before and after any of them.
C40_ContentOperationsKeepToken ==
    [][(initialized /\ DocumentContentCall)
          => StoredToken("global")' = StoredToken("global")]_vars

====
